---- MODULE Spec2Model ----
(***************************************************************************)
(* A model of the option-spread scripts: the contract symbol decoders,     *)
(* the strike selectors, the order-submitting paths and the monitoring     *)
(* series of simple_graph_monitoring_spread_value.py.                      *)
(*                                                                         *)
(* Conventions.                                                            *)
(*   - A Python string is a sequence of one-character strings.             *)
(*   - Python's None is the empty tuple <<>>; a value v that may be None   *)
(*     is carried as <<v>> (Some(v)).                                      *)
(*   - A strike is kept in thousandths of a dollar: int(s) / 1000 is the   *)
(*     integer int(s) read in thousandths.  Every strike and width of the  *)
(*     model is a multiple of 0.5 dollars, for which the float arithmetic  *)
(*     of the scripts is exact.                                            *)
(*   - A calendar date is the integer year * 10000 + month * 100 + day,    *)
(*     which orders dates as datetime.date does.                           *)
(*   - Quote prices and spread prices are integers (cents).                *)
(***************************************************************************)
EXTENDS Integers, Sequences, FiniteSets, TLC

VARIABLES
    token,          \* codec: the contract symbol handed to the decoders
    origin,         \* codec: how the symbol was made (kind, and the tuple it encodes)
    decoded,        \* codec: None, or Some(results of the decoders on token)
    spread_prices,  \* simple_graph...py:35, the list of spread prices
    ma_values,      \* simple_graph...py:36, the list of MA(10) entries
    lastOp,         \* tracker: the operation that produced the current series
    selection,      \* selectors: None, or Some(the call made and its result)
    attempt,        \* order paths: None, or Some(the run of a script: its
                    \* inputs, its outcome and the order it requested)
    positions,      \* asset_management...py:24, None before main has run
    latest_quotes,  \* asset_management...py:25, symbol -> latest quote
    previous_pl,    \* asset_management...py:26, spread id -> reported P/L
    pending,        \* quotes the stream has received and not yet dispatched
    inflight,       \* the quote_handler calls that have started and not returned
    handled         \* the quotes whose handler call has started, in order

codecVars   == <<token, origin, decoded>>
trackerVars == <<spread_prices, ma_values, lastOp>>
selectVars  == <<selection>>
orderVars   == <<attempt>>
monitorVars == <<positions, latest_quotes, previous_pl, pending, inflight, handled>>
vars        == <<token, origin, decoded, spread_prices, ma_values, lastOp, selection,
                 attempt, positions, latest_quotes, previous_pl, pending, inflight,
                 handled>>

(***************************************************************************)
(* Python values                                                           *)
(***************************************************************************)
None == <<>>
Some(v) == <<v>>
Val(o) == o[1]

DigitChars == <<"0", "1", "2", "3", "4", "5", "6", "7", "8", "9">>
Digits == {DigitChars[i] : i \in 1..10}
UpperLetters ==
    {"A", "B", "C", "D", "E", "F", "G", "H", "I", "J", "K", "L", "M",
     "N", "O", "P", "Q", "R", "S", "T", "U", "V", "W", "X", "Y", "Z"}

IsDigit(c) == c \in Digits
DigitVal(c) == (CHOOSE i \in 1..10 : DigitChars[i] = c) - 1
AllDigits(s) == \A i \in 1..Len(s) : IsDigit(s[i])

\* The value of a run of decimal digits.
RECURSIVE DigitsValue(_)
DigitsValue(s) ==
    IF Len(s) = 0 THEN 0
    ELSE 10 * DigitsValue(SubSeq(s, 1, Len(s) - 1)) + DigitVal(s[Len(s)])

\* int(s) of Python on a string over the model's alphabet (uppercase letters
\* and digits): the value when every character is a digit, ValueError (None)
\* otherwise.  Signs, underscores and blanks are outside the alphabet.
PyInt(s) == IF Len(s) > 0 /\ AllDigits(s) THEN Some(DigitsValue(s)) ELSE None

\* s[-n:] and s[a:b] of Python (0-based, end exclusive), for 0 <= a <= b.
LastChars(s, n) == IF Len(s) <= n THEN s ELSE SubSeq(s, Len(s) - n + 1, Len(s))
Slice(s, a, b) ==
    IF a >= Len(s) THEN <<>>
    ELSE SubSeq(s, a + 1, IF b < Len(s) THEN b ELSE Len(s))

DaysInMonth(year, month) ==
    IF month = 2 THEN (IF year % 4 = 0 THEN 29 ELSE 28)
    ELSE IF month \in {4, 6, 9, 11} THEN 30 ELSE 31

\* datetime.strptime(s, '%y%m%d').date() on a string over the model's
\* alphabet: six digits naming a real day, else ValueError (None).  %y maps
\* 69..99 to 1969..1999 and 00..68 to 2000..2068, where every fourth year
\* is a leap year.
Strptime(s) ==
    IF Len(s) = 6 /\ AllDigits(s)
    THEN LET yy    == DigitsValue(SubSeq(s, 1, 2))
             month == DigitsValue(SubSeq(s, 3, 4))
             day   == DigitsValue(SubSeq(s, 5, 6))
             year  == IF yy >= 69 THEN 1900 + yy ELSE 2000 + yy
         IN  IF month \in 1..12 /\ day >= 1 /\ day <= DaysInMonth(year, month)
             THEN Some(year * 10000 + month * 100 + day)
             ELSE None
    ELSE None

(***************************************************************************)
(* The decoders                                                            *)
(***************************************************************************)
\* A mutant of parse_strike that does not enforce the call type.
parse_strike_AnyType(contract_symbol) ==
    IF Len(contract_symbol) < 9 THEN None
    ELSE PyInt(LastChars(contract_symbol, 8))

\* parse_strike: None unless the ninth character from the end is 'C'; then
\* int(last 8 characters) / 1000, None on ValueError.
parse_strike(contract_symbol) ==
    IF Len(contract_symbol) < 9 \/ contract_symbol[Len(contract_symbol) - 8] # "C"
    THEN None
    ELSE PyInt(LastChars(contract_symbol, 8))

\* parse_expiration: None below 15 characters; then strptime of the
\* characters [2:8], None on ValueError.
parse_expiration(contract_symbol) ==
    IF Len(contract_symbol) < 15 THEN None
    ELSE Strptime(Slice(contract_symbol, 2, 8))

\* The length of the leading run of uppercase letters ([A-Z]+ is greedy, and
\* a shorter run cannot be followed by a digit).
LetterRun(s) ==
    CHOOSE n \in 0..Len(s) :
        /\ \A i \in 1..n : s[i] \in UpperLetters
        /\ (n < Len(s) => s[n + 1] \notin UpperLetters)

NoMatch == [underlying |-> None, exp |-> None, opt_type |-> None, strike |-> None]

\* parse_option_symbol: re.match(r'([A-Z]+)(\d{6})([CP])(\d{8})', symbol),
\* anchored at the start only; the strike is int(strike_str) / 1000.
parse_option_symbol(symbol) ==
    LET n == LetterRun(symbol)
    IN  IF /\ n >= 1
           /\ Len(symbol) >= n + 15
           /\ AllDigits(SubSeq(symbol, n + 1, n + 6))
           /\ symbol[n + 7] \in {"C", "P"}
           /\ AllDigits(SubSeq(symbol, n + 8, n + 15))
        THEN [underlying |-> Some(SubSeq(symbol, 1, n)),
              exp        |-> Some(SubSeq(symbol, n + 1, n + 6)),
              opt_type   |-> Some(symbol[n + 7]),
              strike     |-> Some(DigitsValue(SubSeq(symbol, n + 8, n + 15)))]
        ELSE NoMatch

\* One row of the chain table of find_initial_spread: an entry is kept when
\* its strike decodes and its bid is positive, and the row carries
\* parse_expiration(k) as it comes.
InitialSpreadRow(k, bid, ask) ==
    LET strike == parse_strike(k)
    IN  IF strike # None /\ bid > 0
        THEN Some([symbol |-> k, strike |-> Val(strike),
                   expiration |-> parse_expiration(k), bid |-> bid, ask |-> ask])
        ELSE None

(***************************************************************************)
(* Synthesized contract symbols                                            *)
(***************************************************************************)
\* n written with `width` decimal digits, zero padded.
RECURSIVE PadDigits(_, _)
PadDigits(n, width) ==
    IF width = 0 THEN <<>>
    ELSE Append(PadDigits(n \div 10, width - 1), DigitChars[(n % 10) + 1])

\* date.strftime('%y%m%d')
FormatDate(date) ==
    PadDigits((date \div 10000) % 100, 2) \o PadDigits((date \div 100) % 100, 2)
        \o PadDigits(date % 100, 2)

\* underlying + YYMMDD + type + 8-digit strike in thousandths
Synthesize(underlying, date, type, strike) ==
    underlying \o FormatDate(date) \o <<type>> \o PadDigits(strike, 8)

Underlyings == {<<"F">>, <<"B", "P">>, <<"A", "M", "D">>}
Dates == {20250815, 20250822, 19991231}
OptionTypes == {"C", "P"}
Strikes == {95000, 100000, 102500}
BadChars == {"X", "7"}

(***************************************************************************)
(* Codec: a symbol is made, then handed to every decoder                   *)
(***************************************************************************)
CodecIdle == token = <<>> /\ origin = None /\ decoded = None

\* A well-formed symbol, synthesized from a tuple.
MakeSymbol ==
    /\ origin = None
    /\ \E u \in Underlyings, d \in Dates, t \in OptionTypes, k \in Strikes :
          /\ token' = Synthesize(u, d, t, k)
          /\ origin' = Some([kind |-> "wellformed", underlying |-> u, date |-> d,
                             type |-> t, strike |-> k])
    /\ UNCHANGED <<decoded, trackerVars, selectVars, orderVars, monitorVars>>

\* The field of a well-formed symbol that position i lies in.
FieldAt(o, i) ==
    LET n == Len(o.underlying)
    IN  IF i <= n THEN "underlying"
        ELSE IF i <= n + 6 THEN "date"
        ELSE IF i = n + 7 THEN "type"
        ELSE "strike"

\* A symbol cut below the fixed layout (6 + 1 + 8 characters).
Truncate ==
    /\ origin # None /\ Val(origin).kind = "wellformed" /\ decoded = None
    /\ \E n \in 0..14 :
          /\ token' = SubSeq(token, Len(token) - n + 1, Len(token))
          /\ origin' = Some([Val(origin) EXCEPT !.kind = "short"])
    /\ UNCHANGED <<decoded, trackerVars, selectVars, orderVars, monitorVars>>

\* A symbol with one character of its date, type or strike field replaced by
\* a character the field does not allow.
Corrupt ==
    /\ origin # None /\ Val(origin).kind = "wellformed" /\ decoded = None
    /\ \E i \in (Len(Val(origin).underlying) + 1)..Len(token), c \in BadChars :
          LET field == FieldAt(Val(origin), i)
          IN  /\ field = "type" \/ ~IsDigit(c)
              /\ token' = [token EXCEPT ![i] = c]
              /\ origin' = Some([Val(origin) EXCEPT !.kind = "bad_" \o field])
    /\ UNCHANGED <<decoded, trackerVars, selectVars, orderVars, monitorVars>>

\* A well-formed symbol followed by extra characters.
Extend ==
    /\ origin # None /\ Val(origin).kind = "wellformed" /\ decoded = None
    /\ \E c \in BadChars :
          /\ token' = Append(token, c)
          /\ origin' = Some([Val(origin) EXCEPT !.kind = "extra"])
    /\ UNCHANGED <<decoded, trackerVars, selectVars, orderVars, monitorVars>>

\* A well-formed symbol followed by the type and strike fields of another
\* one.
Join ==
    /\ origin # None /\ Val(origin).kind = "wellformed" /\ decoded = None
    /\ \E t \in OptionTypes, k \in Strikes :
          /\ token' = token \o <<t>> \o PadDigits(k, 8)
          /\ origin' = Some([Val(origin) EXCEPT !.kind = "joined"])
    /\ UNCHANGED <<decoded, trackerVars, selectVars, orderVars, monitorVars>>

\* The decoders applied to the symbol.
Decode ==
    /\ origin # None /\ decoded = None
    /\ decoded' = Some([strike     |-> parse_strike(token),
                        expiration |-> parse_expiration(token),
                        parsed     |-> parse_option_symbol(token),
                        row        |-> InitialSpreadRow(token, 1, 2)])
    /\ UNCHANGED <<token, origin, trackerVars, selectVars, orderVars, monitorVars>>

(***************************************************************************)
(* The monitoring series (simple_graph_monitoring_spread_value.py)         *)
(***************************************************************************)
MA_PERIOD == 10
BackfillMinutes == 10
MaxSamples == 12

LongQuotes == {[bid |-> 1, ask |-> 2], [bid |-> 2, ask |-> 3]}
ShortQuotes == {[bid |-> 1, ask |-> 2]}

\* What get_option_snapshot can return for the two legs: None (the fetch
\* failed), or a mapping in which either leg may be absent.
CompleteSnapshots ==
    {[long |-> Some(l), short |-> Some(s)] : l \in LongQuotes, s \in ShortQuotes}
LiveSnapshots ==
    {None} \cup {Some([long |-> l, short |-> s]) :
                    l \in {None} \cup {Some(q) : q \in LongQuotes},
                    s \in {None} \cup {Some(q) : q \in ShortQuotes}}
HistSnapshots == {None} \cup {Some(m) : m \in CompleteSnapshots}

\* get_spread_price: None when the snapshots are missing or empty, or a leg
\* is absent; else long ask - short bid.
get_spread_price(snapshots) ==
    IF snapshots = None THEN None
    ELSE IF Val(snapshots).long = None /\ Val(snapshots).short = None THEN None
    ELSE IF Val(snapshots).long = None \/ Val(snapshots).short = None THEN None
    ELSE Some(Val(Val(snapshots).long).ask - Val(Val(snapshots).short).bid)

RECURSIVE SumSeq(_)
SumSeq(s) == IF Len(s) = 0 THEN 0 ELSE s[1] + SumSeq(Tail(s))

\* n copies of None: [None] * n (the empty list when n <= 0).
Nones(n) == [i \in 1..n |-> None]

\* A mutant of RollingMeanLast whose window is one sample short.
RollingMeanLast_ShortWindow(prices) == SumSeq(LastChars(prices, MA_PERIOD - 1))

\* pd.Series(prices).rolling(window=MA_PERIOD).mean().iloc[-1], for a list of
\* at least MA_PERIOD prices: the mean of the last MA_PERIOD prices.  A mean
\* is kept as the sum of its window, that is in units of 1 / MA_PERIOD.
RollingMeanLast(prices) == SumSeq(LastChars(prices, MA_PERIOD))

\* The mean of the MA_PERIOD prices ending at (1-based) position i.
WindowMean(prices, i) == SumSeq(SubSeq(prices, i - MA_PERIOD + 1, i))

\* A mutant of AppendSample that starts the average one sample late.
AppendSample_Late(series, spread_price) ==
    LET prices == Append(series.prices, spread_price)
    IN  [prices |-> prices,
         ma     |-> IF Len(prices) > MA_PERIOD
                    THEN Append(series.ma, Some(RollingMeanLast(prices)))
                    ELSE Append(series.ma, None)]

\* A mutant of AppendSample that keeps a window of MA_PERIOD prices: the
\* oldest price is dropped for the new one.
AppendSample_Window(series, spread_price) ==
    LET prices == IF Len(series.prices) >= MA_PERIOD
                  THEN Append(Tail(series.prices), spread_price)
                  ELSE Append(series.prices, spread_price)
    IN  [prices |-> prices,
         ma     |-> IF Len(prices) >= MA_PERIOD
                    THEN Append(series.ma, Some(RollingMeanLast(prices)))
                    ELSE Append(series.ma, None)]

\* update_graph, lines 255-260: the price is appended, and with it the
\* rolling mean once MA_PERIOD prices exist, None before.
AppendSample(series, spread_price) ==
    LET prices == Append(series.prices, spread_price)
    IN  [prices |-> prices,
         ma     |-> IF Len(prices) >= MA_PERIOD
                    THEN Append(series.ma, Some(RollingMeanLast(prices)))
                    ELSE Append(series.ma, None)]

\* The prices the historical calls give, oldest first, the None results
\* left out (lines 278-282).
RECURSIVE HistPrices(_, _)
HistPrices(hist, n) ==
    IF n = 0 THEN <<>>
    ELSE LET p == get_spread_price(hist[n])
         IN  IF p # None THEN Append(HistPrices(hist, n - 1), Val(p))
             ELSE HistPrices(hist, n - 1)

\* Lines 284-288: the average entries the backfill adds for the prices.
BackfillMA(prices) ==
    IF Len(prices) >= MA_PERIOD
    THEN Append(Nones(Len(prices) - MA_PERIOD), Some(RollingMeanLast(prices)))
    ELSE Nones(Len(prices))

TrackerIdle == spread_prices = <<>> /\ ma_values = <<>> /\ lastOp = "none"

\* Module level, lines 276-288: one historical price per minute of the last
\* BackfillMinutes minutes, then the average entries.
Backfill ==
    /\ lastOp = "none"
    /\ \E hist \in [1..BackfillMinutes -> HistSnapshots] :
          LET prices == spread_prices \o HistPrices(hist, BackfillMinutes)
          IN  /\ spread_prices' = prices
              /\ ma_values' = ma_values \o BackfillMA(prices)
    /\ lastOp' = "backfill"
    /\ UNCHANGED <<codecVars, selectVars, orderVars, monitorVars>>

\* update_graph, one tick of the animation: a price is appended when
\* get_spread_price gives one, and nothing changes when it gives None.
UpdateGraph ==
    /\ lastOp # "none"
    /\ Len(spread_prices) < MaxSamples
    /\ \E snapshots \in LiveSnapshots :
          LET spread_price == get_spread_price(snapshots)
              series == AppendSample([prices |-> spread_prices, ma |-> ma_values],
                                     Val(spread_price))
          IN  IF spread_price # None
              THEN /\ spread_prices' = series.prices
                   /\ ma_values' = series.ma
                   /\ lastOp' = "append"
              ELSE /\ UNCHANGED <<spread_prices, ma_values>>
                   /\ lastOp' = "skip"
    /\ UNCHANGED <<codecVars, selectVars, orderVars, monitorVars>>

(***************************************************************************)
(* The strike selectors                                                    *)
(***************************************************************************)
MaxRung == 3
MaxChain == 4
STRIKE_SPREAD == 2500

Abs(x) == IF x < 0 THEN 0 - x ELSE x
SetMax(S) == CHOOSE x \in S : \A y \in S : y <= x
SetMin(S) == CHOOSE x \in S : \A y \in S : x <= y
Elements(s) == {s[i] : i \in 1..Len(s)}

\* sorted(set(...)): the values in increasing order, each once.
RECURSIVE SortedList(_)
SortedList(S) ==
    IF S = {} THEN <<>> ELSE <<SetMin(S)>> \o SortedList(S \ {SetMin(S)})

\* The elements of a set as a list, in some order.
RECURSIVE SetToSeq(_)
SetToSeq(S) ==
    IF S = {} THEN <<>>
    ELSE LET x == CHOOSE y \in S : TRUE IN <<x>> \o SetToSeq(S \ {x})

\* A mutant of find_nearest_strikes that takes a strike equal to the price
\* for the lower leg.
find_nearest_strikes_AtOrBelow(strikes, price) ==
    LET lower == Elements(SelectSeq(strikes, LAMBDA x : x <= price))
        upper == Elements(SelectSeq(strikes, LAMBDA x : x > price))
    IN  [below |-> IF lower = {} THEN None ELSE Some(SetMax(lower)),
         above |-> IF upper = {} THEN None ELSE Some(SetMin(upper))]

\* find_nearest_strikes: max of the strikes below the price and min of the
\* strikes above it, None (the default) for an empty side.
find_nearest_strikes(strikes, price) ==
    LET lower == Elements(SelectSeq(strikes, LAMBDA x : x < price))
        upper == Elements(SelectSeq(strikes, LAMBDA x : x > price))
    IN  [below |-> IF lower = {} THEN None ELSE Some(SetMax(lower)),
         above |-> IF upper = {} THEN None ELSE Some(SetMin(upper))]

\* The index of the first element of rows with the least Key: idxmin and
\* argmin return the first occurrence of the minimum.
FirstArgMin(keys) ==
    CHOOSE i \in 1..Len(keys) :
        /\ \A j \in 1..Len(keys) : keys[i] <= keys[j]
        /\ \A j \in 1..(i - 1) : keys[j] > keys[i]

\* find_closest_bull_spread (Alpaca_SDK...py), lines 100-111: one row per
\* chain entry whose strike and expiration both decode, in chain order.
RECURSIVE BullSpreadRows(_)
BullSpreadRows(chain) ==
    IF Len(chain) = 0 THEN <<>>
    ELSE LET k      == chain[1].symbol
             strike == parse_strike(k)
             exp    == parse_expiration(k)
             rest   == BullSpreadRows(Tail(chain))
         IN  IF strike # None /\ exp # None
             THEN <<[symbol |-> k, strike |-> Val(strike), expiration |-> Val(exp),
                     bid |-> chain[1].bid, ask |-> chain[1].ask]>> \o rest
             ELSE rest

\* A mutant of SoonestGroup that takes the first expiration whatever the
\* number of its rows.
SoonestGroup_AnySize(rows) ==
    LET exps == {rows[i].expiration : i \in 1..Len(rows)}
    IN  IF exps = {} THEN None
        ELSE Some(SelectSeq(rows, LAMBDA r : r.expiration = SetMin(exps)))

\* Lines 117-129: the rows of the first expiration, in increasing order,
\* that has at least 2 rows; None when there is none.  Rows of one
\* expiration keep their chain order.
SoonestGroup(rows) ==
    LET exps     == {rows[i].expiration : i \in 1..Len(rows)}
        Count(e) == Cardinality({i \in 1..Len(rows) : rows[i].expiration = e})
        eligible == {e \in exps : Count(e) >= 2}
    IN  IF eligible = {} THEN None
        ELSE Some(SelectSeq(rows, LAMBDA r : r.expiration = SetMin(eligible)))

\* A mutant of ShortCandidates that forgets the floor long + width.
ShortCandidates_NoFloor(group, long_strike, strike_spread) == group

\* A mutant of ShortCandidates that wants the short strike strictly above
\* long + width.
ShortCandidates_Strict(group, long_strike, strike_spread) ==
    SelectSeq(group, LAMBDA r : r.strike > long_strike + strike_spread)

\* Line 136: the rows whose strike is at least long strike + spread.
ShortCandidates(group, long_strike, strike_spread) ==
    SelectSeq(group, LAMBDA r : r.strike >= long_strike + strike_spread)

NoSpread == [long |-> None, short |-> None, cost |-> None]

\* A mutant of SelectInGroup that prices the short leg at its ask.
SelectInGroup_ShortAsk(group, stock_price, strike_spread) ==
    LET long_row   == group[FirstArgMin([i \in 1..Len(group) |->
                                         Abs(group[i].strike - stock_price)])]
        target     == long_row.strike + strike_spread
        candidates == SelectSeq(group, LAMBDA r : r.strike >= target)
        short_row  == candidates[FirstArgMin([i \in 1..Len(candidates) |->
                                         Abs(candidates[i].strike - target)])]
    IN  IF Len(candidates) = 0 THEN [long |-> None, short |-> None, cost |-> None]
        ELSE [long  |-> Some(long_row.symbol),
              short |-> Some(short_row.symbol),
              cost  |-> Some((long_row.ask - short_row.ask) * 100)]

\* Lines 131-146 on the chosen group: the row nearest the stock price is
\* the long leg, the candidate nearest long strike + spread the short leg,
\* and the cost is (long ask - short bid) * 100.
SelectInGroup(group, stock_price, strike_spread) ==
    LET long_row   == group[FirstArgMin([i \in 1..Len(group) |->
                                         Abs(group[i].strike - stock_price)])]
        target     == long_row.strike + strike_spread
        candidates == ShortCandidates(group, long_row.strike, strike_spread)
        short_row  == candidates[FirstArgMin([i \in 1..Len(candidates) |->
                                         Abs(candidates[i].strike - target)])]
    IN  IF Len(candidates) = 0 THEN NoSpread
        ELSE [long  |-> Some(long_row.symbol),
              short |-> Some(short_row.symbol),
              cost  |-> Some((long_row.ask - short_row.bid) * 100)]

\* find_closest_bull_spread(stock_price, chain, strike_spread) of
\* Alpaca_SDK_Options_Functionality_test.py; chain is None or the list of
\* the entries of the mapping.
find_closest_bull_spread(stock_price, chain, strike_spread) ==
    IF chain = None \/ Len(Val(chain)) = 0 THEN NoSpread
    ELSE LET rows  == BullSpreadRows(Val(chain))
             group == SoonestGroup(rows)
         IN  IF Len(rows) = 0 THEN NoSpread
             ELSE IF group = None THEN NoSpread
             ELSE SelectInGroup(Val(group), stock_price, strike_spread)

\* The strikes a ladder can hold, and the reference prices tried against it:
\* below, at, between and above the strikes.
LadderStrikes == {95000 + 5000 * i : i \in 0..MaxRung}
RefPrices == {92500 + 2500 * j : j \in 0..(2 * MaxRung + 2)} \cup {102000}
StrikeLists == {SortedList(S) : S \in SUBSET LadderStrikes}

BP == <<"B", "P">>
AMD == <<"A", "M", "D">>
ChainEntry(date, type, strike, bid, ask) ==
    [symbol |-> Synthesize(BP, date, type, strike), bid |-> bid, ask |-> ask]

\* The contracts a chain of the model is drawn from: four calls of one
\* expiration, two of a later one (one of them without quotes: bid and ask
\* 0), a lone call of an earlier one and a put.
ChainPool ==
    {ChainEntry(20250815, "C", 95000, 520, 540),
     ChainEntry(20250815, "C", 100000, 300, 320),
     ChainEntry(20250815, "C", 105000, 100, 120),
     ChainEntry(20250815, "C", 110000, 30, 40),
     ChainEntry(20250822, "C", 100000, 0, 0),
     ChainEntry(20250822, "C", 105000, 130, 150),
     ChainEntry(20250808, "C", 100000, 280, 300),
     ChainEntry(20250815, "P", 100000, 200, 220)}

\* The mappings of at most n entries, as lists of entries with distinct keys
\* in any order.
ChainsUpTo(n) ==
    UNION {{c \in [1..k -> ChainPool] :
               \A i, j \in 1..k : i # j => c[i].symbol # c[j].symbol} : k \in 0..n}

StockPrices == {97500, 100000, 102000}
SpreadWidths == {STRIKE_SPREAD, 5000, 7500}

\* What get_option_chain and get_stock_snapshot can give: None on an
\* exception, else a chain (which may be empty) or the latest trade price.
ChainFetches == {None} \cup {Some(c) : c \in ChainsUpTo(MaxChain - 2)}

\* Calls of an underlying of three letters: the characters [2:8] of their
\* identifiers are no date, and parse_expiration gives None for each.
GarbledPool ==
    {[symbol |-> Synthesize(AMD, 20250815, "C", 100000), bid |-> 300, ask |-> 320],
     [symbol |-> Synthesize(AMD, 20250815, "C", 105000), bid |-> 100, ask |-> 120],
     [symbol |-> Synthesize(AMD, 20250822, "C", 105000), bid |-> 130, ask |-> 150]}

\* Raw chains: short chains whose entries may carry such identifiers.
RawChains ==
    UNION {{c \in [1..k -> ChainPool \cup GarbledPool] :
               \A i, j \in 1..k : i # j => c[i].symbol # c[j].symbol} :
              k \in 0..(MaxChain - 2)}
RawChainFetches == {None} \cup {Some(c) : c \in RawChains}
StockFetches == {None} \cup {Some(p) : p \in StockPrices}

SelectIdle == selection = None
OrderIdle == attempt = None
MonitorIdle ==
    /\ positions = None /\ latest_quotes = <<>> /\ previous_pl = <<>>
    /\ pending = <<>> /\ inflight = <<>> /\ handled = <<>>

\* A call of find_nearest_strikes on a sorted strike list.
FindNearestStrikes ==
    /\ selection = None
    /\ \E strikes \in StrikeLists, price \in RefPrices :
          selection' = Some([fn |-> "find_nearest_strikes", strikes |-> strikes,
                             price |-> price,
                             result |-> find_nearest_strikes(strikes, price)])
    /\ UNCHANGED <<codecVars, trackerVars, orderVars, monitorVars>>

\* A call of find_closest_bull_spread on a fetched chain.
FindClosestBullSpread ==
    /\ selection = None
    /\ \E chain \in {None} \cup {Some(c) : c \in ChainsUpTo(MaxChain) \cup RawChains},
          stock_price \in StockPrices, strike_spread \in SpreadWidths :
          selection' = Some([fn |-> "find_closest_bull_spread", chain |-> chain,
                             stock_price |-> stock_price,
                             strike_spread |-> strike_spread,
                             result |-> find_closest_bull_spread(
                                            stock_price, chain, strike_spread)])
    /\ UNCHANGED <<codecVars, trackerVars, orderVars, monitorVars>>

(***************************************************************************)
(* simple_graph_monitoring_spread_value.py: find_initial_spread            *)
(***************************************************************************)
\* The expiration the scripts ask for first: 30 days from the day of the run.
EXPIRATION == 20250815

\* The strike range find_initial_spread asks get_strikes for: the stock
\* price - 10.0 and + 10.0.
StrikeWindow == 10000

\* The contracts a request for one expiration can give: those with that
\* expiration.  What such a request gives is None (an exception), or any of
\* them, restricted to the strike range [lo, hi] when the request names one.
PoolOn(exp) ==
    {e \in ChainPool \cup GarbledPool :
        parse_option_symbol(e.symbol).exp = Some(FormatDate(exp))}
ExpirationFetches(exp) ==
    {None} \cup {Some(SetToSeq(S)) : S \in SUBSET PoolOn(exp)}
RangeFetches(exp, lo, hi) ==
    {None} \cup
    {Some(SetToSeq(S)) :
        S \in SUBSET {e \in PoolOn(exp) :
                         /\ Val(parse_option_symbol(e.symbol).strike) >= lo
                         /\ Val(parse_option_symbol(e.symbol).strike) <= hi}}

\* get_strikes of simple_graph...py, lines 62-80, on what the chain request
\* gave: sorted(set(parse_strike(k) that is not None)), [] on an exception.
get_strikes_of_chain(chain) ==
    IF chain = None THEN <<>>
    ELSE SortedList({Val(parse_strike(Val(chain)[i].symbol)) :
                        i \in {j \in 1..Len(Val(chain)) :
                                  parse_strike(Val(chain)[j].symbol) # None}})

\* Lines 130-179: the stock price and the strikes handed to
\* find_nearest_strikes: those of EXPIRATION within the strike range, or,
\* when there are none, those of the soonest expiration of the whole chain
\* that has at least 2 rows.  outcome tells why the script left, if it did.
InitialStrikes(stock, pinned, fallback) ==
    LET strikes == get_strikes_of_chain(pinned)
        rows    == BullSpreadRows(Val(fallback))
        group   == SoonestGroup(rows)
    IN  IF stock = None
        THEN [outcome |-> "no_stock_snapshot", strikes |-> <<>>, soonest_exp |-> None]
        ELSE IF Len(strikes) > 0
        THEN [outcome |-> "ok", strikes |-> strikes, soonest_exp |-> None]
        ELSE IF fallback = None \/ Len(Val(fallback)) = 0
        THEN [outcome |-> "no_option_chain", strikes |-> <<>>, soonest_exp |-> None]
        ELSE IF Len(rows) = 0
        THEN [outcome |-> "no_suitable_contracts", strikes |-> <<>>,
              soonest_exp |-> None]
        ELSE IF group = None
        THEN [outcome |-> "no_expiration", strikes |-> <<>>, soonest_exp |-> None]
        ELSE [outcome |-> "ok",
              strikes |-> SortedList({Val(group)[i].strike : i \in 1..Len(Val(group))}),
              soonest_exp |-> Some(Val(group)[1].expiration)]

\* The expiration of the second chain request (line 186): soonest_exp when
\* the fallback set it, else EXPIRATION.
ChainExpiration(init) ==
    IF init.soonest_exp # None THEN Val(init.soonest_exp) ELSE EXPIRATION

\* Lines 191-201: one row per entry whose strike decodes and whose bid is
\* positive.
RECURSIVE InitialSpreadRows(_)
InitialSpreadRows(chain) ==
    IF Len(chain) = 0 THEN <<>>
    ELSE LET row == InitialSpreadRow(chain[1].symbol, chain[1].bid, chain[1].ask)
         IN  (IF row = None THEN <<>> ELSE <<Val(row)>>)
                 \o InitialSpreadRows(Tail(chain))

\* A mutant of RowsWithStrike that takes the rows at or above the strike.
RowsWithStrike_AtLeast(rows, strike) == SelectSeq(rows, LAMBDA r : r.strike >= strike)

\* df[df['strike'] == strike]
RowsWithStrike(rows, strike) == SelectSeq(rows, LAMBDA r : r.strike = strike)

NoInitialSpread(outcome) == [outcome |-> outcome, long |-> None, short |-> None]

\* find_initial_spread, lines 128-230; a sys.exit(1) is an outcome without
\* contracts.
find_initial_spread(stock, pinned, fallback, final) ==
    LET init      == InitialStrikes(stock, pinned, fallback)
        nearest   == find_nearest_strikes(init.strikes, Val(stock))
        rows      == InitialSpreadRows(Val(final))
        long_row  == RowsWithStrike(rows, Val(nearest.below))
        short_row == RowsWithStrike(rows, Val(nearest.above))
    IN  IF init.outcome # "ok" THEN NoInitialSpread(init.outcome)
        ELSE IF nearest.below = None \/ nearest.above = None
                \/ Val(nearest.below) = 0 \/ Val(nearest.above) = 0
        THEN NoInitialSpread("no_valid_strikes")
        ELSE IF final = None \/ Len(Val(final)) = 0
        THEN NoInitialSpread("no_option_chain")
        ELSE IF Len(rows) = 0 THEN NoInitialSpread("no_suitable_spread")
        ELSE IF Len(long_row) = 0 \/ Len(short_row) = 0
        THEN NoInitialSpread("no_contracts_for_strikes")
        ELSE IF parse_expiration(long_row[1].symbol) # parse_expiration(short_row[1].symbol)
        THEN NoInitialSpread("mismatched_expirations")
        ELSE [outcome |-> "found", long |-> Some(long_row[1].symbol),
              short |-> Some(short_row[1].symbol)]

\* Line 184: the strikes find_nearest_strikes gives for the stock price,
\* None on both sides when the script left before.
InitialBracket(stock, pinned, fallback) ==
    IF InitialStrikes(stock, pinned, fallback).outcome # "ok"
    THEN [below |-> None, above |-> None]
    ELSE find_nearest_strikes(InitialStrikes(stock, pinned, fallback).strikes, Val(stock))

\* A run of find_initial_spread.
FindInitialSpread ==
    /\ selection = None
    /\ \E stock \in StockFetches :
          LET Ran(pinned, fallback, final) ==
                  selection' =
                      Some([fn |-> "find_initial_spread", stock |-> stock,
                            fallback |-> fallback, final |-> final,
                            init |-> InitialStrikes(stock, pinned, fallback),
                            nearest |-> InitialBracket(stock, pinned, fallback),
                            result |-> find_initial_spread(stock, pinned, fallback,
                                                           final)])
          IN  IF stock = None THEN Ran(None, None, None)
              ELSE \E pinned \in RangeFetches(EXPIRATION, Val(stock) - StrikeWindow,
                                              Val(stock) + StrikeWindow) :
                      IF Len(get_strikes_of_chain(pinned)) > 0
                      THEN \E final \in ExpirationFetches(EXPIRATION) :
                              Ran(pinned, None, final)
                      ELSE \E fallback \in ChainFetches :
                              LET init == InitialStrikes(stock, pinned, fallback)
                              IN  IF init.outcome # "ok"
                                  THEN Ran(pinned, fallback, None)
                                  ELSE \E final \in
                                          ExpirationFetches(ChainExpiration(init)) :
                                          Ran(pinned, fallback, final)
    /\ UNCHANGED <<codecVars, trackerVars, orderVars, monitorVars>>

(***************************************************************************)
(* updated_bp_spread_example-42-friendly_v3.py: find_closest_bull_spread   *)
(***************************************************************************)
\* Lines 112-121: one row per chain entry whose strike_price is not None;
\* the strike is that field, the expiration parse_expiration(k) as it comes.
\* The strike_price of an entry of the model is the strike of its contract.
RECURSIVE ExactLookupRows(_)
ExactLookupRows(chain) ==
    IF Len(chain) = 0 THEN <<>>
    ELSE LET strike_price == parse_option_symbol(chain[1].symbol).strike
         IN  (IF strike_price = None THEN <<>>
              ELSE <<[symbol |-> chain[1].symbol, strike |-> Val(strike_price),
                      expiration |-> parse_expiration(chain[1].symbol),
                      bid |-> chain[1].bid, ask |-> chain[1].ask]>>)
                 \o ExactLookupRows(Tail(chain))

\* find_closest_bull_spread(stock_price, chain, long_strike, short_strike) of
\* updated_bp_spread_example-42-friendly_v3.py, lines 106-144: the first
\* rows with exactly the two strikes, if they have the same expiration.
find_closest_bull_spread_v3(stock_price, chain, long_strike, short_strike) ==
    LET rows      == ExactLookupRows(Val(chain))
        long_row  == RowsWithStrike(rows, long_strike)
        short_row == RowsWithStrike(rows, short_strike)
    IN  IF chain = None \/ Len(Val(chain)) = 0 THEN NoSpread
        ELSE IF Len(rows) = 0 THEN NoSpread
        ELSE IF Len(long_row) = 0 \/ Len(short_row) = 0 THEN NoSpread
        ELSE IF long_row[1].expiration # short_row[1].expiration THEN NoSpread
        ELSE [long  |-> Some(long_row[1].symbol),
              short |-> Some(short_row[1].symbol),
              cost  |-> Some((long_row[1].ask - short_row[1].bid) * 100)]

\* A call of find_closest_bull_spread of ...v3.py with explicit strikes.
FindExactBullSpread ==
    /\ selection = None
    /\ \E chain \in RawChainFetches, stock_price \in StockPrices,
          long_strike \in LadderStrikes, short_strike \in LadderStrikes :
          selection' = Some([fn |-> "find_closest_bull_spread_v3", chain |-> chain,
                             stock_price |-> stock_price,
                             long_strike |-> long_strike,
                             short_strike |-> short_strike,
                             result |-> find_closest_bull_spread_v3(
                                            stock_price, chain, long_strike,
                                            short_strike)])
    /\ UNCHANGED <<codecVars, trackerVars, orderVars, monitorVars>>

SelectInit == CodecIdle /\ TrackerIdle /\ SelectIdle /\ OrderIdle /\ MonitorIdle
SelectNext ==
    FindNearestStrikes \/ FindClosestBullSpread \/ FindInitialSpread
        \/ FindExactBullSpread
SpecSelect == SelectInit /\ [][SelectNext]_vars

(***************************************************************************)
(* The order paths                                                         *)
(***************************************************************************)
\* What the POST of an order can give: an order id, a reply without an id,
\* or an exception (raise_for_status, the connection).
PostReplies == {"id", "no_id", "raised"}

\* Option quotes of the REST snapshots, 'bp' and 'ap' in cents.
RestQuotes == {[bp |-> 100, ap |-> 120], [bp |-> 300, ap |-> 321],
               [bp |-> 320, ap |-> 340]}
QuoteFetches == {None} \cup {Some(q) : q \in RestQuotes}

\* round(x, 2) of a price given in half cents: the cents when x is a whole
\* number of cents; for an odd number of half cents the float that x is
\* decides between the two neighbours, and both are allowed.
RoundCents(halfCents) ==
    IF halfCents % 2 = 0 THEN {halfCents \div 2}
    ELSE {(halfCents - 1) \div 2, (halfCents + 1) \div 2}

\* A mutant of PyMax that returns its first argument.
PyMax_First(a, b) == a

\* max(a, b)
PyMax(a, b) == IF b > a THEN b ELSE a

\* The symbols a closing order is asked for, and the other arguments.
CloseSymbols ==
    {Synthesize(BP, 20250815, "C", 100000), Synthesize(BP, 20250815, "C", 105000),
     Synthesize(BP, 20250822, "C", 105000)}
Quantities == {1, 2}
MinCredits == {-50, 0, 50}

\* A mutant of close_mleg_spread that rejects a non-positive credit before
\* it applies the floor.
close_mleg_spread_RejectFirst(long_symbol, short_symbol, qty, min_credit, long_quote, short_quote, rounded, reply) ==
    LET net_credit == IF min_credit > 0 THEN PyMax(rounded, min_credit) ELSE rounded
        call == [path |-> "close_mleg_spread", long_symbol |-> long_symbol,
                 short_symbol |-> short_symbol, qty |-> qty,
                 min_credit |-> min_credit, long_quote |-> long_quote,
                 short_quote |-> short_quote,
                 computed |-> IF long_quote = None \/ short_quote = None
                              THEN None ELSE Some(rounded)]
    IN  IF long_quote = None \/ short_quote = None
        THEN [call |-> call, outcome |-> "missing_quotes", order |-> None]
        ELSE IF rounded <= 0
        THEN [call |-> call, outcome |-> "invalid_net_credit", order |-> None]
        ELSE [call |-> call,
              outcome |-> IF reply = "id" THEN "submitted"
                          ELSE IF reply = "no_id" THEN "no_order_id" ELSE "error",
              order |-> Some([long |-> long_symbol, short |-> short_symbol,
                              qty |-> qty, limit_price |-> net_credit])]

\* close_mleg_spread(long_symbol, short_symbol, qty, min_credit), with what
\* the two quote fetches and the POST give.
close_mleg_spread(long_symbol, short_symbol, qty, min_credit, long_quote, short_quote, rounded, reply) ==
    LET net_credit == IF min_credit > 0 THEN PyMax(rounded, min_credit) ELSE rounded
        call == [path |-> "close_mleg_spread", long_symbol |-> long_symbol,
                 short_symbol |-> short_symbol, qty |-> qty,
                 min_credit |-> min_credit, long_quote |-> long_quote,
                 short_quote |-> short_quote,
                 computed |-> IF long_quote = None \/ short_quote = None
                              THEN None ELSE Some(rounded)]
    IN  IF long_quote = None \/ short_quote = None
        THEN [call |-> call, outcome |-> "missing_quotes", order |-> None]
        ELSE IF net_credit <= 0
        THEN [call |-> call, outcome |-> "invalid_net_credit", order |-> None]
        ELSE [call |-> call,
              outcome |-> IF reply = "id" THEN "submitted"
                          ELSE IF reply = "no_id" THEN "no_order_id" ELSE "error",
              order |-> Some([long |-> long_symbol, short |-> short_symbol,
                              qty |-> qty, limit_price |-> net_credit])]

\* A call of close_mleg_spread.
CloseMlegSpread ==
    /\ attempt = None
    /\ \E long_symbol \in CloseSymbols, short_symbol \in CloseSymbols,
          qty \in Quantities, min_credit \in MinCredits,
          long_quote \in QuoteFetches, short_quote \in QuoteFetches,
          reply \in PostReplies :
          IF long_quote = None \/ short_quote = None
          THEN attempt' = Some(close_mleg_spread(long_symbol, short_symbol, qty,
                                   min_credit, long_quote, short_quote, 0, reply))
          ELSE \E rounded \in RoundCents(
                      (Val(long_quote).bp + Val(long_quote).ap)
                          - (Val(short_quote).bp + Val(short_quote).ap)) :
                  attempt' = Some(close_mleg_spread(long_symbol, short_symbol, qty,
                                      min_credit, long_quote, short_quote, rounded,
                                      reply))
    /\ UNCHANGED <<codecVars, trackerVars, selectVars, monitorVars>>

\* parser.parse_args(), lines 110-115: the namespace has one attribute per
\* argument, named by its dest; the dest of --min-credit is min_credit.
ParseArgs(option1, option2, qty, min_credit) ==
    [option1 |-> option1, option2 |-> option2, qty |-> qty,
     min_credit |-> min_credit]

\* main of test_sell_2leg_option.py, lines 108-126, after the two symbols
\* are known: the keyword arguments of the call are evaluated in order, and
\* min_credit=args.min-credit reads the attribute min of the namespace and
\* subtracts the name credit from it.  The namespace has no attribute min
\* (AttributeError), and the module no name credit (NameError): main leaves
\* by the exception, and close_mleg_spread is not called.
SellMainResult(args, long_symbol, short_symbol) ==
    [call |-> [path |-> "test_sell_2leg_option.main", args |-> args,
               long_symbol |-> long_symbol, short_symbol |-> short_symbol,
               closes |-> <<>>],
     outcome |-> IF "min" \in DOMAIN args THEN "NameError" ELSE "AttributeError",
     order |-> None]

\* A run of main of test_sell_2leg_option.py: a symbol the command line does
\* not give is asked for with input().
TestSell2LegMain ==
    /\ attempt = None
    /\ \E option1 \in {None} \cup {Some(x) : x \in CloseSymbols},
          option2 \in {None} \cup {Some(x) : x \in CloseSymbols},
          qty \in Quantities, min_credit \in MinCredits,
          typed1 \in CloseSymbols, typed2 \in CloseSymbols :
          /\ option1 # None => typed1 = Val(option1)
          /\ option2 # None => typed2 = Val(option2)
          /\ attempt' = Some(SellMainResult(
                                 ParseArgs(option1, option2, qty, min_credit),
                                 typed1, typed2))
    /\ UNCHANGED <<codecVars, trackerVars, selectVars, monitorVars>>

(***************************************************************************)
(* test_option_chain.py: main and place_spread_order                       *)
(***************************************************************************)
TSLA == <<"T", "S", "L", "A">>
TSLL == <<"T", "S", "L", "L">>
NextFriday == 20250815

RestContract(underlying, strike) ==
    [symbol |-> Synthesize(underlying, NextFriday, "C", strike),
     strike_price |-> strike, underlying_symbol |-> underlying]

\* The call contracts of the requested expiration the REST API knows: the
\* ladder of TSLA, and one contract of another underlying.
ContractPool ==
    {RestContract(TSLA, k) : k \in LadderStrikes} \cup {RestContract(TSLL, 100000)}

\* What a contracts request for the strike range [lo, hi] can give: None
\* (an exception), or any of the contracts of the range.
ContractResponses(lo, hi) ==
    {None} \cup
    {Some(SetToSeq(S)) :
        S \in SUBSET {c \in ContractPool : c.strike_price >= lo /\ c.strike_price <= hi}}

\* get_option_contracts: the contracts of the reply whose underlying is the
\* symbol, [] on an exception.
get_option_contracts(symbol, response) ==
    IF response = None THEN <<>>
    ELSE SelectSeq(Val(response), LAMBDA c : c.underlying_symbol = symbol)

\* get_strikes of test_option_chain.py: sorted(set(strike of each contract)).
get_strikes(contracts) ==
    SortedList({contracts[i].strike_price : i \in 1..Len(contracts)})

\* next((c for c in contracts if float(c['strike_price']) == strike), None)
FirstWithStrike(contracts, strike) ==
    LET hits == SelectSeq(contracts, LAMBDA c : c.strike_price = strike)
    IN  IF Len(hits) = 0 THEN None ELSE Some(hits[1])

\* round(x) of Python for x = n / d, d > 0: to the nearest integer, a tie to
\* the even one.
RoundHalfEven(n, d) ==
    LET q == n \div d
        r == n % d
    IN  IF 2 * r < d THEN q
        ELSE IF 2 * r > d THEN q + 1
        ELSE IF q % 2 = 0 THEN q ELSE q + 1

\* place_spread_order, given the two contract lists, the two quotes and the
\* reply to the POST: the outcome and the order requested, if any.
place_spread_order(buy_strike, sell_strike, buy_contracts, sell_contracts, buy_quote, sell_quote, reply) ==
    LET buy_contract  == FirstWithStrike(buy_contracts, buy_strike)
        sell_contract == FirstWithStrike(sell_contracts, sell_strike)
    IN  IF buy_contract = None \/ sell_contract = None
        THEN [outcome |-> "invalid_contracts", order |-> None]
        ELSE IF buy_quote = None \/ sell_quote = None
        THEN [outcome |-> "missing_quotes", order |-> None]
        ELSE LET spread_price == Val(buy_quote).ap - Val(sell_quote).bp
             IN  IF spread_price <= 0
                 THEN [outcome |-> "invalid_spread_price", order |-> None]
                 ELSE [outcome |-> IF reply = "id" THEN "submitted"
                                   ELSE IF reply = "no_id" THEN "no_order_id"
                                   ELSE "error",
                       order |-> Some([long |-> Val(buy_contract).symbol,
                                       short |-> Val(sell_contract).symbol,
                                       qty |-> 1, limit_price |-> spread_price])]

\* The prices get_current_price can give; 0 is its value on an error.
CurrentPrices == {0, 97500, 102000, 112000}

\* A mutant of SpreadStrikes that buys the strike just below the price.
SpreadStrikes_BuyBelow(current_price, call_strikes) ==
    LET below  == find_nearest_strikes(call_strikes, current_price).below
        higher == Elements(SelectSeq(call_strikes, LAMBDA x : x > Val(below)))
    IN  IF current_price = 0 \/ Len(call_strikes) = 0 THEN None
        ELSE IF below = None \/ Val(below) = 0 THEN None
        ELSE IF higher = {} \/ SetMin(higher) = 0 THEN None
        ELSE Some([buy |-> Val(below), sell |-> SetMin(higher)])

\* main of test_option_chain.py up to the call of place_spread_order: the
\* strikes it asks place_spread_order for, or None when it returns before.
SpreadStrikes(current_price, call_strikes) ==
    LET above  == find_nearest_strikes(call_strikes, current_price).above
        higher == Elements(SelectSeq(call_strikes, LAMBDA x : x > Val(above)))
    IN  IF current_price = 0 \/ Len(call_strikes) = 0 THEN None
        ELSE IF above = None \/ Val(above) = 0 THEN None
        ELSE IF higher = {} \/ SetMin(higher) = 0 THEN None
        ELSE Some([buy |-> Val(above), sell |-> SetMin(higher)])

\* A run of main of test_option_chain.py.
TestOptionChainMain ==
    /\ attempt = None
    /\ \E current_price \in CurrentPrices :
          LET base_strike == RoundHalfEven(current_price, 5000) * 5000
          IN  \E listing \in ContractResponses(base_strike - 50000, base_strike + 50000) :
                LET call_strikes == IF current_price = 0 THEN <<>>
                                    ELSE get_strikes(get_option_contracts(TSLA, listing))
                    legs == SpreadStrikes(current_price, call_strikes)
                    run  == [path |-> "test_option_chain.main",
                             current_price |-> current_price,
                             call_strikes |-> call_strikes, legs |-> legs,
                             buy_quote |-> None, sell_quote |-> None]
                IN  IF legs = None
                    THEN attempt' = Some([call |-> run, outcome |-> "no_order_attempted",
                                          order |-> None])
                    ELSE \E buy_reply \in ContractResponses(Val(legs).buy, Val(legs).buy),
                            sell_reply \in ContractResponses(Val(legs).sell, Val(legs).sell),
                            buy_quote \in QuoteFetches, sell_quote \in QuoteFetches,
                            reply \in PostReplies :
                            LET placed == place_spread_order(
                                              Val(legs).buy, Val(legs).sell,
                                              get_option_contracts(TSLA, buy_reply),
                                              get_option_contracts(TSLA, sell_reply),
                                              buy_quote, sell_quote, reply)
                            IN  attempt' = Some([call |-> [run EXCEPT
                                                              !.buy_quote = buy_quote,
                                                              !.sell_quote = sell_quote],
                                                 outcome |-> placed.outcome,
                                                 order |-> placed.order])
    /\ UNCHANGED <<codecVars, trackerVars, selectVars, monitorVars>>

(***************************************************************************)
(* Alpaca_SDK_Options_Functionality_test.py: main                          *)
(***************************************************************************)
\* Lines 149-176: the chain of the expiration 30 days ahead and the stock
\* price; when either is missing, the stock price again and the chain of all
\* expirations.  The result is what main goes on with, or why it returned.
AlpacaInputs(chainA, snapA, snapB, chainB) ==
    LET primary_chain == chainA # None /\ Len(Val(chainA)) > 0
        stock_price   == IF primary_chain /\ snapA # None THEN snapA ELSE None
    IN  IF primary_chain /\ stock_price # None /\ Val(stock_price) # 0
        THEN [outcome |-> "fetched", stock_price |-> Val(stock_price), chain |-> chainA]
        ELSE IF snapB = None
        THEN [outcome |-> "no_stock_snapshot", stock_price |-> 0, chain |-> None]
        ELSE IF chainB = None \/ Len(Val(chainB)) = 0
        THEN [outcome |-> "no_option_chain", stock_price |-> Val(snapB), chain |-> None]
        ELSE [outcome |-> "fetched", stock_price |-> Val(snapB), chain |-> chainB]

\* main of Alpaca_SDK..., lines 149-176.
AlpacaFetch ==
    /\ attempt = None
    /\ \E chainA \in ChainFetches, snapA \in StockFetches :
          LET Fetched(got) ==
                  attempt' = Some([call |-> [path |-> "alpaca_main",
                                             stock_price |-> got.stock_price,
                                             chain |-> got.chain],
                                   outcome |-> got.outcome, order |-> None])
              primary == AlpacaInputs(chainA, snapA, None, None)
          IN  IF primary.outcome = "fetched"
              THEN Fetched(primary)
              ELSE \E snapB \in StockFetches, chainB \in ChainFetches :
                      Fetched(AlpacaInputs(chainA, snapA, snapB, chainB))
    /\ UNCHANGED <<codecVars, trackerVars, selectVars, monitorVars>>

\* The entry of a chain with the symbol.
EntryOf(chain, symbol) ==
    chain[CHOOSE i \in 1..Len(chain) : chain[i].symbol = symbol]

\* The latest quote a snapshot fetched after the selection can carry for a
\* contract of the chain: the quote the chain had, or one that has moved by
\* 0.10 since.
SnapshotQuotes(chain, symbol) ==
    {[bid |-> EntryOf(chain, symbol).bid, ask |-> EntryOf(chain, symbol).ask],
     [bid |-> EntryOf(chain, symbol).bid + 10, ask |-> EntryOf(chain, symbol).ask + 10]}

\* What get_option_snapshot (lines 185-195) can give for the two legs of the
\* selected spread: None (the fetch failed), or a mapping in which either leg
\* may be absent.  Without a spread main returns before the fetch.
LegSnapshots(chain, spread) ==
    IF spread.long = None \/ spread.short = None THEN {None}
    ELSE {None} \cup
         {Some([long |-> l, short |-> s]) :
             l \in {None} \cup {Some(q) : q \in SnapshotQuotes(Val(chain), Val(spread.long))},
             s \in {None} \cup {Some(q) : q \in SnapshotQuotes(Val(chain), Val(spread.short))}}

\* Lines 178-230: the spread is selected from the chain, the snapshots of
\* its legs are fetched, the expirations of the legs are compared, and the
\* order is requested at spread_cost / 100.
AlpacaTradeResult(stock_price, chain, snapshots, accepted) ==
    LET spread == find_closest_bull_spread(stock_price, chain, STRIKE_SPREAD)
    IN  IF spread.long = None \/ spread.short = None
        THEN [outcome |-> "no_suitable_spread", spread |-> spread, order |-> None]
        ELSE IF snapshots = None
                \/ (Val(snapshots).long = None /\ Val(snapshots).short = None)
        THEN [outcome |-> "no_snapshots", spread |-> spread, order |-> None]
        ELSE IF Val(snapshots).long = None \/ Val(snapshots).short = None
        THEN [outcome |-> "incomplete_option_data", spread |-> spread, order |-> None]
        ELSE IF parse_expiration(Val(spread.long)) # parse_expiration(Val(spread.short))
        THEN [outcome |-> "mismatched_expirations", spread |-> spread, order |-> None]
        ELSE [outcome |-> IF accepted THEN "submitted" ELSE "submit_failed",
              spread |-> spread,
              order |-> Some([long |-> Val(spread.long), short |-> Val(spread.short),
                              qty |-> 1, limit_price |-> Val(spread.cost) \div 100])]

\* main of Alpaca_SDK..., lines 178-230.
AlpacaTrade ==
    /\ attempt # None
    /\ Val(attempt).call.path = "alpaca_main" /\ Val(attempt).outcome = "fetched"
    /\ \E accepted \in BOOLEAN,
          snapshots \in LegSnapshots(
                            Val(attempt).call.chain,
                            find_closest_bull_spread(Val(attempt).call.stock_price,
                                                     Val(attempt).call.chain,
                                                     STRIKE_SPREAD)) :
          LET call == Val(attempt).call
              done == AlpacaTradeResult(call.stock_price, call.chain, snapshots,
                                        accepted)
          IN  attempt' = Some([call |-> [path |-> "alpaca_main",
                                         stock_price |-> call.stock_price,
                                         chain |-> call.chain,
                                         snapshots |-> snapshots,
                                         spread |-> done.spread],
                               outcome |-> done.outcome, order |-> done.order])
    /\ UNCHANGED <<codecVars, trackerVars, selectVars, monitorVars>>

OrderInit == CodecIdle /\ TrackerIdle /\ SelectIdle /\ OrderIdle /\ MonitorIdle
OrderNext ==
    CloseMlegSpread \/ TestSell2LegMain \/ TestOptionChainMain \/ AlpacaFetch
        \/ AlpacaTrade
SpecOrder == OrderInit /\ [][OrderNext]_vars

(***************************************************************************)
(* asset_management_websocket_subscription.py                              *)
(***************************************************************************)
MaxPositions == 3
MaxQuotes == 2

\* An open position as get_all_positions gives it: the quantity of a short
\* position is negative; cost_basis and unrealized_pl are in cents.
Position(symbol, asset_class, side) ==
    [symbol |-> symbol, asset_class |-> asset_class, side |-> side,
     qty |-> IF side = "long" THEN 1 ELSE -1,
     cost_basis |-> IF side = "long" THEN 30000 ELSE -10000,
     unrealized_pl |-> IF side = "long" THEN 500 ELSE -200]

\* The positions an account of the model can hold: calls of two
\* expirations held long or short, a put held long and a higher put held
\* short, and the stock.
PositionPool ==
    {Position(Synthesize(AMD, 20250815, "C", k), "us_option", side) :
        k \in {100000, 105000, 110000}, side \in {"long", "short"}}
    \cup {Position(Synthesize(AMD, 20250822, "C", 105000), "us_option", side) :
            side \in {"long", "short"}}
    \cup {Position(Synthesize(AMD, 20250815, "P", 100000), "us_option", "long"),
          Position(Synthesize(AMD, 20250815, "P", 105000), "us_option", "short"),
          Position(AMD, "us_equity", "long")}

\* The lists of at most MaxPositions positions, one per symbol.
PositionLists ==
    UNION {{l \in [1..k -> PositionPool] :
               \A i, j \in 1..k : i # j => l[i].symbol # l[j].symbol} :
           k \in 0..MaxPositions}

\* 'option' in pos.asset_class.lower()
ContainsOption(asset_class) == asset_class = "us_option"

\* Lines 60-62: an option position whose symbol parses and is a call.
IsTrackedCall(pos) ==
    /\ ContainsOption(pos.asset_class)
    /\ parse_option_symbol(pos.symbol).underlying # None
    /\ parse_option_symbol(pos.symbol).opt_type = Some("C")

\* Line 63: key = (underlying, exp, opt_type)
SpreadKey(pos) ==
    LET parsed == parse_option_symbol(pos.symbol)
    IN  <<Val(parsed.underlying), Val(parsed.exp), Val(parsed.opt_type)>>

PositionStrike(pos) == Val(parse_option_symbol(pos.symbol).strike)

\* A mutant of SortedByStrike that leaves the group as it is.
SortedByStrike_Unsorted(group) == group

\* Line 69: group.sort(key=strike), a stable sort.
RECURSIVE SortedByStrike(_)
SortedByStrike(group) ==
    IF Len(group) = 0 THEN <<>>
    ELSE LET i == FirstArgMin([j \in 1..Len(group) |-> PositionStrike(group[j])])
         IN  <<group[i]>> \o SortedByStrike(SubSeq(group, 1, i - 1)
                                               \o SubSeq(group, i + 1, Len(group)))

\* find_spreads: the mapping spread_id -> {long, short} as the set of its
\* items; spread_id f"{underlying}_{exp}_bull_call" is kept as the pair
\* (underlying, exp).
find_spreads(all_positions) ==
    LET tracked    == SelectSeq(all_positions, LAMBDA pos : IsTrackedCall(pos))
        keys       == {SpreadKey(tracked[i]) : i \in 1..Len(tracked)}
        Group(key) == SortedByStrike(SelectSeq(tracked, LAMBDA pos : SpreadKey(pos) = key))
    IN  {[spread_id |-> <<key[1], key[2]>>, long |-> Group(key)[1],
          short |-> Group(key)[2]] :
            key \in {k \in keys : /\ Len(Group(k)) >= 2
                                  /\ Group(k)[1].side = "long"
                                  /\ Group(k)[2].side = "short"}}

\* main, lines 163-201: the positions are loaded and grouped; the quotes of
\* the legs are subscribed to when the market is open and a spread exists.
\* fetch is None when get_all_positions raises.
monitor_main(fetch, market_open) ==
    IF fetch = None
    THEN [outcome |-> "error", all |-> <<>>, spreads |-> {}, subscribed |-> {}]
    ELSE LET spreads == find_spreads(Val(fetch))
             outcome == IF ~market_open THEN "market_closed"
                        ELSE IF Len(Val(fetch)) = 0 THEN "no_positions"
                        ELSE IF spreads = {} THEN "no_spreads"
                        ELSE "monitoring"
         IN  [outcome |-> outcome, all |-> Val(fetch), spreads |-> spreads,
              subscribed |-> IF outcome = "monitoring"
                             THEN {sp.long.symbol : sp \in spreads}
                                      \cup {sp.short.symbol : sp \in spreads}
                             ELSE {}]

\* A run of main up to stream.run().
MonitorMain ==
    /\ positions = None
    /\ \E fetch \in {None} \cup {Some(l) : l \in PositionLists},
          market_open \in BOOLEAN :
          positions' = Some(monitor_main(fetch, market_open))
    /\ UNCHANGED <<latest_quotes, previous_pl, pending, inflight, handled>>
    /\ UNCHANGED <<codecVars, trackerVars, selectVars, orderVars>>

\* The quotes the stream can deliver for a symbol, bid and ask in cents.
QuotePrices == {<<100, 120>>, <<110, 130>>}
StreamQuotes(symbols) ==
    {[symbol |-> s, bid_price |-> q[1], ask_price |-> q[2]] :
        s \in symbols, q \in QuotePrices}

\* The mapping f with f[k] = v.
Put(f, k, v) == [x \in DOMAIN f \cup {k} |-> IF x = k THEN v ELSE f[x]]

\* quotes.get(symbol)
Lookup(quotes, symbol) ==
    IF symbol \in DOMAIN quotes THEN Some(quotes[symbol]) ELSE None

\* calculate_pl, in half cents: without a quote the unrealized P/L of the
\* position; else qty * mid * 100 * (1 or -1) - cost_basis, where mid is
\* (bid + ask) / 2, or 0 when the bid or the ask is 0.
calculate_pl(leg, quote) ==
    IF quote = None THEN 2 * leg.unrealized_pl
    ELSE LET twice_mid == IF Val(quote).bid_price # 0 /\ Val(quote).ask_price # 0
                          THEN Val(quote).bid_price + Val(quote).ask_price
                          ELSE 0
         IN  leg.qty * twice_mid * 100 * (IF leg.side = "long" THEN 1 ELSE -1)
                 - 2 * leg.cost_basis

calculate_spread_pl(spread, quotes) ==
    calculate_pl(spread.long, Lookup(quotes, spread.long.symbol))
        + calculate_pl(spread.short, Lookup(quotes, spread.short.symbol))

\* A mutant of ReportedPl that reports a change only above 10.00.
ReportedPl_Coarse(reported, quotes, spreads, symbol) ==
    LET touched == {sp \in spreads : symbol \in {sp.long.symbol, sp.short.symbol}}
        changed == {sp \in touched :
                       \/ sp.spread_id \notin DOMAIN reported
                       \/ Abs(calculate_spread_pl(sp, quotes)
                                  - reported[sp.spread_id]) > 2000}
    IN  [id \in DOMAIN reported \cup {sp.spread_id : sp \in changed} |->
            IF \E sp \in changed : sp.spread_id = id
            THEN calculate_spread_pl(CHOOSE sp \in changed : sp.spread_id = id, quotes)
            ELSE reported[id]]

\* Lines 135-139: previous_pl after the loop over the spreads.  The P/L of a
\* spread with the symbol as a leg is stored when none was stored or when it
\* differs from the stored one by more than 0.01 (2 half cents).  A symbol
\* is a leg of at most one spread.
ReportedPl(reported, quotes, spreads, symbol) ==
    LET touched == {sp \in spreads : symbol \in {sp.long.symbol, sp.short.symbol}}
        changed == {sp \in touched :
                       \/ sp.spread_id \notin DOMAIN reported
                       \/ Abs(calculate_spread_pl(sp, quotes)
                                  - reported[sp.spread_id]) > 2}
    IN  [id \in DOMAIN reported \cup {sp.spread_id : sp \in changed} |->
            IF \E sp \in changed : sp.spread_id = id
            THEN calculate_spread_pl(CHOOSE sp \in changed : sp.spread_id = id, quotes)
            ELSE reported[id]]

\* A mutant of Suspends: an await after the store of the quote.
Suspends_AfterStore(pc) == pc = "store"

\* Whether quote_handler gives the event loop the control back after the
\* statement at pc: lines 129-160 hold no await.
Suspends(pc) == FALSE

\* The stream receives a quote of a subscribed symbol.
ReceiveQuote ==
    /\ positions # None
    /\ Len(handled) + Len(pending) < MaxQuotes
    /\ \E quote \in StreamQuotes(Val(positions).subscribed) :
          pending' = Append(pending, quote)
    /\ UNCHANGED <<positions, latest_quotes, previous_pl, inflight, handled>>
    /\ UNCHANGED <<codecVars, trackerVars, selectVars, orderVars>>

\* The event loop, running no coroutine, calls quote_handler with the next
\* quote.
DispatchQuote ==
    /\ Len(pending) > 0
    /\ \A i \in 1..Len(inflight) : inflight[i].yielded
    /\ inflight' = Append(inflight, [quote |-> Head(pending), pc |-> "store",
                                     yielded |-> FALSE])
    /\ pending' = Tail(pending)
    /\ handled' = Append(handled, Head(pending))
    /\ UNCHANGED <<positions, latest_quotes, previous_pl>>
    /\ UNCHANGED <<codecVars, trackerVars, selectVars, orderVars>>

\* quote_handler runs up to its next suspension point or its return: line
\* 132 stores the quote, lines 134-158 report the P/L.  A suspended call
\* goes on only when the event loop runs no other coroutine.
HandlerStep ==
    /\ \E i \in 1..Len(inflight) :
          LET call == inflight[i]
          IN  /\ ~call.yielded \/ \A j \in 1..Len(inflight) : inflight[j].yielded
              /\ IF call.pc = "store"
                 THEN /\ latest_quotes' = Put(latest_quotes, call.quote.symbol,
                                              call.quote)
                      /\ inflight' = [inflight EXCEPT ![i] =
                                         [call EXCEPT !.pc = "report",
                                                      !.yielded = Suspends("store")]]
                      /\ UNCHANGED previous_pl
                 ELSE /\ previous_pl' = ReportedPl(previous_pl, latest_quotes,
                                                   Val(positions).spreads,
                                                   call.quote.symbol)
                      /\ inflight' = SubSeq(inflight, 1, i - 1)
                                         \o SubSeq(inflight, i + 1, Len(inflight))
                      /\ UNCHANGED latest_quotes
    /\ UNCHANGED <<positions, pending, handled>>
    /\ UNCHANGED <<codecVars, trackerVars, selectVars, orderVars>>

MonitorInit == CodecIdle /\ TrackerIdle /\ SelectIdle /\ OrderIdle /\ MonitorIdle
MonitorNext == MonitorMain \/ ReceiveQuote \/ DispatchQuote \/ HandlerStep
SpecMonitor == MonitorInit /\ [][MonitorNext]_vars

TrackerInit == CodecIdle /\ TrackerIdle /\ SelectIdle /\ OrderIdle /\ MonitorIdle
TrackerNext == Backfill \/ UpdateGraph
SpecTracker == TrackerInit /\ [][TrackerNext]_vars

CodecInit == CodecIdle /\ TrackerIdle /\ SelectIdle /\ OrderIdle /\ MonitorIdle
CodecNext == MakeSymbol \/ Truncate \/ Corrupt \/ Extend \/ Join \/ Decode
SpecCodec == CodecInit /\ [][CodecNext]_vars

(***************************************************************************)
(* Claims about the decoders                                               *)
(***************************************************************************)
\* C2: for every symbol synthesized from (underlying, date, type, strike),
\* whatever the length of the underlying and whichever the type,
\* parse_expiration recovers the date and parse_strike recovers the strike.
C2_DecodeRoundTrip ==
    (decoded # None /\ Val(origin).kind = "wellformed") =>
        /\ Val(decoded).expiration = Some(Val(origin).date)
        /\ Val(decoded).strike = Some(Val(origin).strike)

\* C3 (for the two-letter underlying of the scripts, whose date field
\* parse_expiration reads): a symbol that is shorter than the fixed layout, or has a bad type
\* character, or a non-numeric date or strike field, is rejected by every
\* decoder; no symbol gives a strike without an expiration (or the reverse),
\* nor a table row without an expiration; a symbol with extra characters is
\* not accepted.
C3_DecodeRejects ==
    (decoded # None /\ Len(Val(origin).underlying) = 2) =>
        LET o == Val(origin)
            d == Val(decoded)
        IN  /\ o.kind \in {"short", "bad_type", "bad_date", "bad_strike"} =>
                  /\ d.strike = None
                  /\ d.expiration = None
                  /\ d.parsed = NoMatch
            /\ (d.strike = None) <=> (d.expiration = None)
            /\ d.row # None => Val(d.row).expiration # None
            /\ o.kind = "extra" => (d.strike = None /\ d.parsed = NoMatch)

(***************************************************************************)
(* Claims about the monitoring series                                      *)
(***************************************************************************)
\* C4: the average entry of sample index i (ma_values[i], 0-based) is None
\* for i in 0..8 and, for every sample index i >= 9, the mean of the
\* MA_PERIOD samples ending at i.
C4_MovingAverageAvailability ==
    /\ \A i \in 1..Len(ma_values) :
          i <= MA_PERIOD - 1 => ma_values[i] = None
    /\ \A i \in MA_PERIOD..Len(spread_prices) :
          /\ i <= Len(ma_values)
          /\ ma_values[i] = Some(WindowMean(spread_prices, i))

\* C5: ma_values is never longer than spread_prices, and its k-th element
\* (0-based), drawn at x = k + MA_PERIOD - 1, is the mean of
\* spread_prices[k .. k + MA_PERIOD - 1].
C5_OffsetAlignment ==
    /\ Len(ma_values) <= Len(spread_prices)
    /\ \A k \in 1..Len(ma_values) :
          /\ k + MA_PERIOD - 1 <= Len(spread_prices)
          /\ ma_values[k] = Some(WindowMean(spread_prices, k + MA_PERIOD - 1))

\* The series that successive live appends of the prices build from the
\* empty series.
RECURSIVE LiveReplay(_)
LiveReplay(prices) ==
    IF Len(prices) = 0 THEN [prices |-> <<>>, ma |-> <<>>]
    ELSE AppendSample(LiveReplay(SubSeq(prices, 1, Len(prices) - 1)),
                      prices[Len(prices)])

\* C6: the series after the backfill of a run of m prices (0 <= m <= 10)
\* is the series that m live appends of the same prices build.
C6_BackfillEqualsAppends ==
    lastOp = "backfill" =>
        [prices |-> spread_prices, ma |-> ma_values] = LiveReplay(spread_prices)

TrackerState(prices) ==
    IF Len(prices) = 0 THEN "EMPTY"
    ELSE IF Len(prices) < MA_PERIOD THEN "PARTIAL"
    ELSE "FULL"

\* The last average entry is a number.
AverageAvailable(ma) == Len(ma) > 0 /\ ma[Len(ma)] # None

\* C7 as stated: the series leaves EMPTY for PARTIAL only, enters FULL only
\* from PARTIAL and by an append, never leaves FULL, and an append in FULL
\* gives a numeric average.
C7_StateMachineAsStated ==
    [][/\ (TrackerState(spread_prices) = "EMPTY"
              /\ TrackerState(spread_prices') # "EMPTY")
          => TrackerState(spread_prices') = "PARTIAL"
       /\ (TrackerState(spread_prices) # "FULL"
              /\ TrackerState(spread_prices') = "FULL")
          => (TrackerState(spread_prices) = "PARTIAL" /\ lastOp' = "append")
       /\ TrackerState(spread_prices) = "FULL"
          => TrackerState(spread_prices') = "FULL"
       /\ (TrackerState(spread_prices) = "FULL" /\ lastOp' = "append")
          => AverageAvailable(ma_values')
      ]_vars

\* C7 amended: the series leaves EMPTY by an append (for PARTIAL) or by a
\* backfill (for PARTIAL, or for FULL when all BackfillMinutes historical
\* prices are there); it enters FULL only so or from PARTIAL by an append;
\* it never leaves FULL; FULL is where the last average entry is a number,
\* and an append in FULL adds the mean of the last MA_PERIOD prices.
C7_StateMachine ==
    [][/\ (TrackerState(spread_prices) = "EMPTY"
              /\ TrackerState(spread_prices') # "EMPTY")
          => \/ lastOp' = "append" /\ TrackerState(spread_prices') = "PARTIAL"
             \/ lastOp' = "backfill" /\ Len(spread_prices') < MA_PERIOD
             \/ lastOp' = "backfill" /\ Len(spread_prices') = BackfillMinutes
       /\ (TrackerState(spread_prices) # "FULL"
              /\ TrackerState(spread_prices') = "FULL")
          => \/ TrackerState(spread_prices) = "PARTIAL" /\ lastOp' = "append"
             \/ /\ TrackerState(spread_prices) = "EMPTY"
                /\ lastOp' = "backfill"
                /\ Len(spread_prices') = BackfillMinutes
       /\ TrackerState(spread_prices) = "FULL"
          => TrackerState(spread_prices') = "FULL"
       /\ TrackerState(spread_prices') = "FULL" <=> AverageAvailable(ma_values')
       /\ (TrackerState(spread_prices) = "FULL" /\ lastOp' = "append")
          => ma_values'[Len(ma_values')] = Some(RollingMeanLast(spread_prices'))
      ]_vars

\* An append made in FULL, after FULL was entered.
C7_Witness ==
    /\ lastOp = "append"
    /\ Len(spread_prices) > MA_PERIOD
    /\ AverageAvailable(ma_values)

(***************************************************************************)
(* Claims about the strike selectors                                       *)
(***************************************************************************)
\* C8: find_nearest_strikes returns the largest strike strictly below the
\* price and the smallest strictly above it, None for a side exactly when no
\* strike lies on it; {95, 100, 105, 110} and 102 give (100, 105); a strike
\* equal to the price is chosen for neither leg.
C8_BracketNearest ==
    (selection # None /\ Val(selection).fn = "find_nearest_strikes") =>
        LET S == Elements(Val(selection).strikes)
            P == Val(selection).price
            r == Val(selection).result
        IN  /\ r.below = None <=> ~ \E x \in S : x < P
            /\ r.below # None =>
                  /\ Val(r.below) \in S /\ Val(r.below) < P
                  /\ \A x \in S : x < P => x <= Val(r.below)
            /\ r.above = None <=> ~ \E x \in S : x > P
            /\ r.above # None =>
                  /\ Val(r.above) \in S /\ Val(r.above) > P
                  /\ \A x \in S : x > P => x >= Val(r.above)
            /\ (S = {95000, 100000, 105000, 110000} /\ P = 102000) =>
                  (r.below = Some(100000) /\ r.above = Some(105000))

\* The example of C8, with both legs found.
C8_Witness ==
    /\ selection # None /\ Val(selection).fn = "find_nearest_strikes"
    /\ Val(selection).strikes = <<95000, 100000, 105000, 110000>>
    /\ Val(selection).price = 102000
    /\ Val(selection).result.below # None /\ Val(selection).result.above # None

\* A call of find_closest_bull_spread that reached a group of one expiration.
BullCallWithGroup ==
    /\ selection # None /\ Val(selection).fn = "find_closest_bull_spread"
    /\ Val(selection).chain # None
    /\ SoonestGroup(BullSpreadRows(Val(Val(selection).chain))) # None

\* The strikes of the chosen expiration, and those nearest the stock price.
GroupStrikes ==
    LET G == Val(SoonestGroup(BullSpreadRows(Val(Val(selection).chain))))
    IN  {G[i].strike : i \in 1..Len(G)}
NearestStrikes ==
    {k \in GroupStrikes :
        \A k2 \in GroupStrikes :
            Abs(k - Val(selection).stock_price) <= Abs(k2 - Val(selection).stock_price)}

\* C9: in the ladder of the chosen expiration, the long leg is a strike
\* nearest the price, the short leg is the strike nearest long + W among
\* the strikes >= long + W, and no spread is returned exactly when no strike
\* >= long + W exists.
C9_NearestWithWidth ==
    BullCallWithGroup =>
        LET W == Val(selection).strike_spread
            r == Val(selection).result
        IN  /\ r.long # None =>
                  /\ r.short # None
                  /\ LET l  == Val(parse_strike(Val(r.long)))
                         sh == Val(parse_strike(Val(r.short)))
                     IN  /\ l \in NearestStrikes
                         /\ sh \in GroupStrikes
                         /\ sh >= l + W
                         /\ \A k \in GroupStrikes :
                               k >= l + W => Abs(sh - (l + W)) <= Abs(k - (l + W))
            /\ r.long = None =>
                  /\ r.short = None
                  /\ \E l \in NearestStrikes : ~ \E k \in GroupStrikes : k >= l + W

\* A spread chosen where two strikes were at or above long + W.
C9_Witness ==
    /\ BullCallWithGroup
    /\ Val(selection).result.long # None
    /\ LET l == Val(parse_strike(Val(Val(selection).result.long)))
       IN  Cardinality({k \in GroupStrikes : k >= l + Val(selection).strike_spread}) >= 2

\* The case of C10: the ladder {95, 100, 105, 110}, 100 the one strike
\* nearest the price, and the target width 7.5.
WidthExample ==
    /\ BullCallWithGroup
    /\ Val(selection).strike_spread = 7500
    /\ GroupStrikes = {95000, 100000, 105000, 110000}
    /\ NearestStrikes = {100000}

\* C10 as stated: there the selector returns the short strike 105.
C10_WidthExampleAsStated ==
    WidthExample =>
        /\ Val(selection).result.short # None
        /\ parse_strike(Val(Val(selection).result.short)) = Some(105000)

\* C10 amended: there the selector returns the long strike 100 and the
\* short strike 110, the only strike >= 107.5.
C10_WidthExample ==
    WidthExample =>
        /\ Val(selection).result.long # None
        /\ parse_strike(Val(Val(selection).result.long)) = Some(100000)
        /\ Val(selection).result.short # None
        /\ parse_strike(Val(Val(selection).result.short)) = Some(110000)

C10_Witness == WidthExample /\ Val(selection).result.short # None

\* The expirations that at least 2 rows carry, and the strikes of the rows of
\* one expiration.
EligibleExpirations(rows) ==
    {e \in {rows[i].expiration : i \in 1..Len(rows)} :
        Cardinality({i \in 1..Len(rows) : rows[i].expiration = e}) >= 2}
StrikesOn(rows, e) ==
    {rows[i].strike : i \in {j \in 1..Len(rows) : rows[j].expiration = e}}

\* C11: with no expiration pinned, find_closest_bull_spread and the
\* fallback of find_initial_spread choose the earliest expiration that at
\* least 2 surviving chain entries carry and take both legs from it; they
\* fail, with no legs, when no expiration has 2 entries; an expiration with
\* 2 entries offers 2 distinct strikes.
C11_SoonestEligibleExpiration ==
    selection # None =>
        LET s == Val(selection)
        IN  /\ (s.fn = "find_closest_bull_spread" /\ s.chain # None) =>
                  LET rows == BullSpreadRows(Val(s.chain))
                      E    == EligibleExpirations(rows)
                  IN  /\ E = {} => s.result = NoSpread
                      /\ s.result.long # None =>
                            /\ E # {}
                            /\ parse_expiration(Val(s.result.long)) = Some(SetMin(E))
                            /\ parse_expiration(Val(s.result.short)) = Some(SetMin(E))
                      /\ \A e \in E : Cardinality(StrikesOn(rows, e)) >= 2
            /\ (s.fn = "find_initial_spread" /\ s.fallback # None) =>
                  LET rows == BullSpreadRows(Val(s.fallback))
                      E    == EligibleExpirations(rows)
                  IN  /\ E = {} =>
                            /\ s.init.outcome # "ok"
                            /\ s.result.long = None /\ s.result.short = None
                      /\ s.init.outcome = "ok" =>
                            /\ E # {}
                            /\ s.init.soonest_exp = Some(SetMin(E))
                            /\ Elements(s.init.strikes) = StrikesOn(rows, SetMin(E))
                      /\ s.result.long # None =>
                            /\ parse_option_symbol(Val(s.result.long)).exp
                                   = Some(FormatDate(SetMin(E)))
                            /\ parse_option_symbol(Val(s.result.short)).exp
                                   = Some(FormatDate(SetMin(E)))

\* A spread found in an expiration that is not the earliest of the chain:
\* the earlier one has a single entry.
C11_Witness ==
    /\ selection # None /\ Val(selection).fn = "find_closest_bull_spread"
    /\ Val(selection).chain # None
    /\ Val(selection).result.long # None
    /\ LET rows == BullSpreadRows(Val(Val(selection).chain))
       IN  \E i \in 1..Len(rows) :
              rows[i].expiration < SetMin(EligibleExpirations(rows))

StrictlyIncreasing(strikes) ==
    \A i \in 1..(Len(strikes) - 1) : strikes[i] < strikes[i + 1]

\* C12: every ladder handed to a selector is strictly increasing by strike,
\* without a duplicate: the results of get_strikes (both scripts) and the
\* group of one expiration that find_closest_bull_spread selects in.
C12_LadderOrdering ==
    /\ \A response \in ContractResponses(SetMin(LadderStrikes), SetMax(LadderStrikes)) :
          StrictlyIncreasing(get_strikes(get_option_contracts(TSLA, response)))
    /\ (selection # None /\ Val(selection).fn = "find_initial_spread") =>
          StrictlyIncreasing(Val(selection).init.strikes)
    /\ BullCallWithGroup =>
          LET G == Val(SoonestGroup(BullSpreadRows(Val(Val(selection).chain))))
          IN  StrictlyIncreasing([i \in 1..Len(G) |-> G[i].strike])

\* A selector call that returned two contracts, and the two.
SpreadReturned ==
    /\ selection # None
    /\ Val(selection).fn \in {"find_closest_bull_spread", "find_closest_bull_spread_v3",
                              "find_initial_spread"}
    /\ Val(selection).result.long # None
    /\ Val(selection).result.short # None
ReturnedLong == Val(Val(selection).result.long)
ReturnedShort == Val(Val(selection).result.short)

\* The strike of the long contract is below that of the short one, and both
\* decode to one expiration.
CandidateInvariant ==
    /\ Val(parse_option_symbol(ReturnedLong).strike)
           < Val(parse_option_symbol(ReturnedShort).strike)
    /\ parse_expiration(ReturnedLong) # None
    /\ parse_expiration(ReturnedLong) = parse_expiration(ReturnedShort)
    /\ parse_option_symbol(ReturnedLong).exp = parse_option_symbol(ReturnedShort).exp

\* C17: every spread a selector returns, whatever the chain, the price, the
\* width or the explicit strikes, has long strike < short strike and two
\* legs of one expiration.
C17_CandidateInvariantAsStated == SpreadReturned => CandidateInvariant


\* The strike a selector call reads off a chain entry: its strike_price in
\* ...v3.py, parse_strike of its symbol in find_initial_spread.
EntryStrike(symbol) ==
    IF Val(selection).fn = "find_closest_bull_spread_v3"
    THEN parse_option_symbol(symbol).strike
    ELSE parse_strike(symbol)

\* The strikes of the entries of a fetched chain, none for a failed fetch.
FetchedStrikes(chain) ==
    IF chain = None THEN {}
    ELSE {Val(EntryStrike(Val(chain)[i].symbol)) :
             i \in {j \in 1..Len(Val(chain)) : EntryStrike(Val(chain)[j].symbol) # None}}

\* The entry of a fetched chain with the symbol has the strike.
ReturnedFrom(chain, symbol, strike) ==
    /\ chain # None
    /\ \E i \in 1..Len(Val(chain)) : Val(chain)[i].symbol = Val(symbol)
    /\ EntryStrike(Val(symbol)) = Some(strike)

\* The exact lookup of a selector call: the two strikes looked up, the chain
\* they are looked up in and what the call returned.
ExactLookup ==
    IF Val(selection).fn = "find_closest_bull_spread_v3"
    THEN [long_strike |-> Some(Val(selection).long_strike),
          short_strike |-> Some(Val(selection).short_strike),
          chain |-> Val(selection).chain, result |-> Val(selection).result]
    ELSE [long_strike |-> Val(selection).nearest.below,
          short_strike |-> Val(selection).nearest.above,
          chain |-> Val(selection).final, result |-> Val(selection).result]

\* A selector call that came to look up two strikes.
LookedUp ==
    /\ selection # None
    /\ Val(selection).fn \in {"find_closest_bull_spread_v3", "find_initial_spread"}
    /\ ExactLookup.long_strike # None
    /\ ExactLookup.short_strike # None

\* place_spread_order for strikes the two contract requests do not both hold
\* returns without asking for a quote and without an order.
PlaceSpreadOrderNeedsBoth ==
    \A buy_strike \in LadderStrikes, sell_strike \in LadderStrikes :
       \A buy_reply \in ContractResponses(buy_strike, buy_strike),
          sell_reply \in ContractResponses(sell_strike, sell_strike),
          quote \in QuoteFetches :
          LET buy_contracts  == get_option_contracts(TSLA, buy_reply)
              sell_contracts == get_option_contracts(TSLA, sell_reply)
              placed == place_spread_order(buy_strike, sell_strike, buy_contracts,
                                           sell_contracts, quote, quote, "id")
              Holds(contracts, strike) ==
                  \E i \in 1..Len(contracts) : contracts[i].strike_price = strike
          IN  /\ ~(Holds(buy_contracts, buy_strike) /\ Holds(sell_contracts, sell_strike))
                     => placed = [outcome |-> "invalid_contracts", order |-> None]
              /\ placed.order # None =>
                     /\ \E i \in 1..Len(buy_contracts) :
                           /\ buy_contracts[i].symbol = Val(placed.order).long
                           /\ buy_contracts[i].strike_price = buy_strike
                     /\ \E i \in 1..Len(sell_contracts) :
                           /\ sell_contracts[i].symbol = Val(placed.order).short
                           /\ sell_contracts[i].strike_price = sell_strike

DecodesCompletely(symbol) ==
    parse_strike(symbol) # None /\ parse_expiration(symbol) # None

\* The chain a selector call builds its table from, and the symbols of the
\* rows of the table.
BuiltFrom ==
    IF Val(selection).fn = "find_initial_spread" THEN Val(selection).final
    ELSE Val(selection).chain
ConsideredSymbols ==
    LET rows == IF Val(selection).fn = "find_closest_bull_spread"
                THEN BullSpreadRows(Val(BuiltFrom))
                ELSE IF Val(selection).fn = "find_initial_spread"
                THEN InitialSpreadRows(Val(BuiltFrom))
                ELSE ExactLookupRows(Val(BuiltFrom))
    IN  {rows[i].symbol : i \in 1..Len(rows)}

\* C21: for any raw chain, the entries a selector considers are exactly the
\* tokens that decode completely (strike and expiration) and are of the
\* wanted type, and no other entry is ever returned as a leg.
C21_SkipBadEntries ==
    (/\ selection # None
     /\ Val(selection).fn \in {"find_closest_bull_spread", "find_closest_bull_spread_v3",
                               "find_initial_spread"}
     /\ BuiltFrom # None
     /\ Val(selection).fn = "find_initial_spread" =>
            Val(selection).result.outcome
                \in {"no_suitable_spread", "no_contracts_for_strikes",
                     "mismatched_expirations", "found"}) =>
        /\ ConsideredSymbols
               = {Val(BuiltFrom)[i].symbol :
                     i \in {j \in 1..Len(Val(BuiltFrom)) :
                               DecodesCompletely(Val(BuiltFrom)[j].symbol)}}
        /\ Val(selection).result.long # None =>
               /\ DecodesCompletely(Val(Val(selection).result.long))
               /\ DecodesCompletely(Val(Val(selection).result.short))

\* C25: the same-expiration check is not passed vacuously: a selector that
\* compares the expirations of its two legs returns them only if both
\* expirations decode and are equal; two identifiers whose expirations both
\* fail to decode do not count as sharing an expiration.
C25_ExpirationCheckNotVacuous ==
    (/\ selection # None
     /\ Val(selection).fn \in {"find_closest_bull_spread_v3", "find_initial_spread"}
     /\ Val(selection).result.long # None) =>
        /\ parse_expiration(Val(Val(selection).result.long)) # None
        /\ parse_expiration(Val(Val(selection).result.short)) # None
        /\ parse_expiration(Val(Val(selection).result.long))
               = parse_expiration(Val(Val(selection).result.short))

(***************************************************************************)
(* Claims about the order paths                                            *)
(***************************************************************************)
\* C1: an order is requested, in any of the three order paths, only if the
\* expirations decoded from its two leg symbols are equal.
C1_OrderOnlyWithEqualExpirations ==
    (attempt # None /\ Val(attempt).order # None) =>
        LET order == Val(Val(attempt).order)
        IN  /\ parse_expiration(order.long) = parse_expiration(order.short)
            /\ parse_option_symbol(order.long).exp = parse_option_symbol(order.short).exp

\* C13: the per-contract amount of a debit is long ask - short bid, the
\* total is that amount x 100 x quantity, the quantity is 1, and the limit
\* price of the order is the per-contract amount; long ask 3.20 and short
\* bid 1.00 give 2.20 and 220.00.
C13_DebitPricing ==
    /\ \A m \in CompleteSnapshots :
          get_spread_price(Some(m)) = Some(Val(m.long).ask - Val(m.short).bid)
    /\ (attempt # None /\ Val(attempt).order # None
           /\ Val(attempt).call.path = "alpaca_main") =>
          LET call      == Val(attempt).call
              order     == Val(Val(attempt).order)
              longAsk   == EntryOf(Val(call.chain), order.long).ask
              shortBid  == EntryOf(Val(call.chain), order.short).bid
          IN  /\ order.qty = 1
              /\ order.limit_price = longAsk - shortBid
              /\ call.spread.cost = Some((longAsk - shortBid) * 100 * order.qty)
              /\ (longAsk = 320 /\ shortBid = 100) =>
                    (order.limit_price = 220 /\ call.spread.cost = Some(22000))
    /\ (attempt # None /\ Val(attempt).order # None
           /\ Val(attempt).call.path = "test_option_chain.main") =>
          LET call  == Val(attempt).call
              order == Val(Val(attempt).order)
          IN  /\ order.qty = 1
              /\ order.limit_price = Val(call.buy_quote).ap - Val(call.sell_quote).bp

\* The example of C13 priced and ordered by main of Alpaca_SDK...
C13_Witness ==
    /\ attempt # None /\ Val(attempt).order # None
    /\ Val(attempt).call.path = "alpaca_main"
    /\ EntryOf(Val(Val(attempt).call.chain), Val(Val(attempt).order).long).ask = 320
    /\ EntryOf(Val(Val(attempt).call.chain), Val(Val(attempt).order).short).bid = 100
    /\ Val(Val(attempt).order).limit_price = 220

\* A call of close_mleg_spread that got both quotes.
ClosePriced ==
    /\ attempt # None /\ Val(attempt).call.path = "close_mleg_spread"
    /\ Val(attempt).call.computed # None

\* Twice the difference of the midpoints of the two quotes of the call.
TwiceMidDifference ==
    LET call == Val(attempt).call
    IN  (Val(call.long_quote).bp + Val(call.long_quote).ap)
            - (Val(call.short_quote).bp + Val(call.short_quote).ap)

\* C14: the credit close_mleg_spread computes is midpoint(long) -
\* midpoint(short) rounded to cents (within half a cent of it); the limit
\* price of its order is the greater of that credit and the floor when the
\* floor is above 0, and that credit when the floor is 0.
C14_ClosingCredit ==
    ClosePriced =>
        LET call   == Val(attempt).call
            credit == Val(call.computed)
        IN  /\ Abs(2 * credit - TwiceMidDifference) <= 1
            /\ Val(attempt).order # None =>
                  Val(Val(attempt).order).limit_price =
                      IF call.min_credit > 0
                      THEN (IF credit >= call.min_credit THEN credit ELSE call.min_credit)
                      ELSE credit

\* An order whose limit price is the floor, the computed credit being below.
C14_Witness ==
    /\ ClosePriced
    /\ Val(attempt).order # None
    /\ Val(attempt).call.min_credit > 0
    /\ Val(Val(attempt).call.computed) < Val(attempt).call.min_credit
    /\ Val(Val(attempt).order).limit_price = Val(attempt).call.min_credit

\* C15: no order is requested, in any of the three order paths, with a
\* limit price <= 0.
C15_PositiveLimitPrice ==
    (attempt # None /\ Val(attempt).order # None) =>
        Val(Val(attempt).order).limit_price > 0

(***************************************************************************)
(* Claims about the position monitor                                       *)
(***************************************************************************)
\* main has loaded and grouped the positions, and the stream has received
\* no quote yet (the positions and the spreads do not change afterwards).
PositionsLoaded ==
    /\ positions # None /\ Val(positions).outcome # "error"
    /\ Len(pending) = 0 /\ Len(handled) = 0

\* The option positions whose symbol parses, their keys (underlying,
\* expiration, type), and the positions of one key.
ParsedOptions ==
    {pos \in Elements(Val(positions).all) :
        /\ ContainsOption(pos.asset_class)
        /\ parse_option_symbol(pos.symbol).underlying # None}
PositionKeys == {SpreadKey(pos) : pos \in ParsedOptions}
KeyPositions(key) == {pos \in ParsedOptions : SpreadKey(pos) = key}

\* The position of the lowest strike of a set, and of the second lowest.
LowestStrike(P) ==
    CHOOSE pos \in P : \A other \in P : PositionStrike(pos) <= PositionStrike(other)
SecondLowestStrike(P) == LowestStrike(P \ {LowestStrike(P)})

\* A key has at least 2 positions, the lowest strike held long and the
\* second lowest held short.
BullPair(key) ==
    /\ Cardinality(KeyPositions(key)) >= 2
    /\ LowestStrike(KeyPositions(key)).side = "long"
    /\ SecondLowestStrike(KeyPositions(key)).side = "short"

SpreadsOfKey(key) ==
    {sp \in Val(positions).spreads : SpreadKey(sp.long) = key \/ SpreadKey(sp.short) = key}

\* The legs of every spread are the two lowest strikes of one key, the
\* lower one long, and no key has two spreads.
SpreadsWellFormed ==
    /\ \A sp \in Val(positions).spreads :
          /\ SpreadKey(sp.long) = SpreadKey(sp.short)
          /\ PositionStrike(sp.long) < PositionStrike(sp.short)
          /\ sp.long = LowestStrike(KeyPositions(SpreadKey(sp.long)))
          /\ sp.short = SecondLowestStrike(KeyPositions(SpreadKey(sp.long)))
          /\ sp.long.side = "long" /\ sp.short.side = "short"
    /\ \A key \in PositionKeys : Cardinality(SpreadsOfKey(key)) <= 1

\* C16 as stated: every key (underlying, expiration, type) yields a spread
\* exactly when it has at least 2 positions and, of its two lowest strikes,
\* the lower is held long and the higher short.
C16_PositionGroupingAsStated ==
    PositionsLoaded =>
        /\ SpreadsWellFormed
        /\ \A key \in PositionKeys : SpreadsOfKey(key) # {} <=> BullPair(key)

\* C16 amended: that holds of the keys of call positions; put positions
\* (and positions that are not options) are left out and never form a
\* spread.
C16_PositionGrouping ==
    PositionsLoaded =>
        /\ SpreadsWellFormed
        /\ \A key \in PositionKeys :
              /\ key[3] = "C" => (SpreadsOfKey(key) # {} <=> BullPair(key))
              /\ key[3] # "C" => SpreadsOfKey(key) = {}

\* A spread of the two lowest of 3 calls of one key.
C16_Witness ==
    /\ PositionsLoaded
    /\ \E sp \in Val(positions).spreads :
          Cardinality(KeyPositions(SpreadKey(sp.long))) >= 3

\* The quotes whose store (line 132) has run: those handed to quote_handler,
\* but for the one of a call that is still before its store.
StoredQuotes ==
    IF Len(inflight) > 0 /\ inflight[Len(inflight)].pc = "store"
    THEN SubSeq(handled, 1, Len(handled) - 1)
    ELSE handled

\* The last quote of the symbol in a sequence of quotes, None without one.
LastQuoteOf(quotes, symbol) ==
    LET at == {i \in 1..Len(quotes) : quotes[i].symbol = symbol}
    IN  IF at = {} THEN None ELSE Some(quotes[CHOOSE i \in at : \A j \in at : j <= i])

\* C19: quote updates are handled as discrete, ordered calls: a call of
\* quote_handler is never in flight together with another one, a next quote
\* is handed over only after the writes of the call before (so nothing is in
\* flight while a quote waits for its store), a call reports with its own
\* quote stored, and latest_quotes holds for every symbol the most recently
\* handled quote of the symbol.
C19_DiscreteOrderedCalls ==
    /\ Len(inflight) <= 1
    /\ \A i \in 1..Len(inflight) :
          /\ ~inflight[i].yielded
          /\ inflight[i].quote = handled[Len(handled)]
          /\ inflight[i].pc = "report" =>
                Lookup(latest_quotes, inflight[i].quote.symbol) = Some(inflight[i].quote)
    /\ positions # None =>
          \A symbol \in Val(positions).subscribed \cup DOMAIN latest_quotes :
             Lookup(latest_quotes, symbol) = LastQuoteOf(StoredQuotes, symbol)

\* Two different quotes of one symbol were handled one after the other, and
\* latest_quotes holds the second.
C19_Witness ==
    /\ Len(handled) = 2
    /\ Len(inflight) = 0
    /\ handled[1].symbol = handled[2].symbol
    /\ handled[1] # handled[2]
    /\ latest_quotes[handled[2].symbol] = handled[2]
    /\ DOMAIN previous_pl # {}

\* s is an initial part of t.
IsPrefix(s, t) == Len(s) <= Len(t) /\ SubSeq(t, 1, Len(s)) = s

\* get_spread_price gives no price exactly when the fetch failed or a leg is
\* missing from the snapshots.
NoPriceWithoutBothLegs ==
    \A snapshots \in LiveSnapshots :
       get_spread_price(snapshots) = None
          <=> (\/ snapshots = None
               \/ Val(snapshots).long = None
               \/ Val(snapshots).short = None)

\* C20: the series only grow: every step leaves the samples it found where
\* they were; a tick of update_graph that got a price adds exactly one
\* element to spread_prices and one to ma_values, and a tick without a price
\* (a leg missing) leaves both as they were.
C20_AppendOnly ==
    [][/\ IsPrefix(spread_prices, spread_prices')
       /\ IsPrefix(ma_values, ma_values')
       /\ lastOp' = "append" =>
             /\ Len(spread_prices') = Len(spread_prices) + 1
             /\ Len(ma_values') = Len(ma_values) + 1
       /\ lastOp' = "skip" =>
             /\ spread_prices' = spread_prices
             /\ ma_values' = ma_values
       /\ NoPriceWithoutBothLegs]_vars

\* A tick without a price came after ticks that had added prices to a full
\* backfill.
C20_Witness ==
    /\ lastOp = "skip"
    /\ Len(spread_prices) > BackfillMinutes
    /\ Len(ma_values) > 1

\* A run of main of test_option_chain.py.
ChainMainRan ==
    attempt # None /\ Val(attempt).call.path = "test_option_chain.main"

\* C22: main of test_option_chain.py attempts a spread order only when a
\* strike lies strictly above the current price and a further strike above
\* that one; it buys the smallest strike above the price and sells the next
\* strike above it, so buy < sell with no strike of the ladder strictly
\* between; with the price unavailable (0) or no strikes returned, no order
\* is attempted.
C22_OrderAboveThePrice ==
    ChainMainRan =>
        LET call    == Val(attempt).call
            ladder  == Elements(call.call_strikes)
            above   == {k \in ladder : k > call.current_price}
        IN  /\ call.legs # None =>
                  /\ above # {}
                  /\ Val(call.legs).buy = SetMin(above)
                  /\ {k \in ladder : k > SetMin(above)} # {}
                  /\ Val(call.legs).sell = SetMin({k \in ladder : k > SetMin(above)})
                  /\ Val(call.legs).buy < Val(call.legs).sell
                  /\ ~ \E k \in ladder :
                          k > Val(call.legs).buy /\ k < Val(call.legs).sell
            /\ (call.current_price = 0 \/ ladder = {}) =>
                  /\ call.legs = None
                  /\ Val(attempt).outcome = "no_order_attempted"
                  /\ Val(attempt).order = None
            /\ Val(attempt).order # None =>
                  /\ call.legs # None
                  /\ parse_option_symbol(Val(Val(attempt).order).long).strike
                         = Some(Val(call.legs).buy)
                  /\ parse_option_symbol(Val(Val(attempt).order).short).strike
                         = Some(Val(call.legs).sell)

\* An order was requested on a ladder with a strike below the price and
\* three above it.
C22_Witness ==
    /\ ChainMainRan
    /\ Val(attempt).order # None
    /\ \E k \in Elements(Val(attempt).call.call_strikes) :
          k < Val(attempt).call.current_price
    /\ Cardinality({k \in Elements(Val(attempt).call.call_strikes) :
                       k > Val(attempt).call.current_price}) >= 3

\* C23: main of test_sell_2leg_option.py, run with both option symbols on
\* the command line, calls close_mleg_spread exactly once, with qty the
\* --qty argument and min_credit the --min-credit argument.
C23_CloseCalledOnce ==
    (/\ attempt # None
     /\ Val(attempt).call.path = "test_sell_2leg_option.main"
     /\ Val(attempt).call.args.option1 # None
     /\ Val(attempt).call.args.option2 # None) =>
        LET call == Val(attempt).call
        IN  /\ Len(call.closes) = 1
            /\ call.closes[1].qty = call.args.qty
            /\ call.closes[1].min_credit = call.args.min_credit

\* An order of main of Alpaca_SDK_Options_Functionality_test.py.
AlpacaOrdered ==
    /\ attempt # None
    /\ Val(attempt).call.path = "alpaca_main"
    /\ Val(attempt).order # None

\* C24: the limit price of the order of main is long ask - short bid of the
\* snapshots fetched for the two legs after the selection, the quotes
\* printed just before the order, also when these differ from the quotes of
\* the chain the selection used.
C24_LimitFromSnapshots ==
    AlpacaOrdered =>
        Val(Val(attempt).order).limit_price
            = Val(Val(Val(attempt).call.snapshots).long).ask
                  - Val(Val(Val(attempt).call.snapshots).short).bid

\* The spreads with a leg for which a quote has been handled to its end.
QuotedSpreads ==
    {sp \in Val(positions).spreads :
        \E i \in 1..Len(handled) :
           handled[i].symbol \in {sp.long.symbol, sp.short.symbol}}

\* No call of quote_handler is in flight: every quote handed over has been
\* handled to its end.
HandlerIdle == positions # None /\ Len(inflight) = 0

\* The symbols of the positions that are a leg of no spread.
UnpairedSymbols ==
    {Val(positions).all[i].symbol : i \in 1..Len(Val(positions).all)}
        \ UNION {{sp.long.symbol, sp.short.symbol} : sp \in Val(positions).spreads}

\* C26: previous_pl[spread] is written only when the spread had no reported
\* P/L or the new P/L differs from the reported one by more than 0.01 (2
\* half cents), and the value written is the current P/L; so after the
\* quotes for the legs of a spread are handled, its current P/L and
\* previous_pl[spread] differ by at most 0.01; a quote for a symbol that is a
\* leg of no spread leaves previous_pl as it is.
C26_ReportedWithinACent ==
    /\ [](HandlerIdle =>
            /\ \A sp \in QuotedSpreads :
                  /\ sp.spread_id \in DOMAIN previous_pl
                  /\ Abs(calculate_spread_pl(sp, latest_quotes)
                             - previous_pl[sp.spread_id]) <= 2
            /\ \A symbol \in UnpairedSymbols :
                  ReportedPl(previous_pl, latest_quotes, Val(positions).spreads,
                             symbol) = previous_pl)
    /\ [][\A id \in DOMAIN previous_pl' :
             (id \notin DOMAIN previous_pl \/ previous_pl'[id] # previous_pl[id]) =>
                /\ id \in DOMAIN previous_pl =>
                      Abs(previous_pl'[id] - previous_pl[id]) > 2
                /\ \E sp \in Val(positions).spreads :
                      /\ sp.spread_id = id
                      /\ previous_pl'[id] = calculate_spread_pl(sp, latest_quotes)]_vars

\* Both legs of a spread were quoted, one after the other, the second quote
\* moved the P/L, and the P/L reported is the current one; a position of the
\* account is a leg of no spread.
C26_Witness ==
    /\ HandlerIdle
    /\ Len(handled) = 2
    /\ handled[1].symbol # handled[2].symbol
    /\ UnpairedSymbols # {}
    /\ \E sp \in QuotedSpreads :
          /\ {handled[1].symbol, handled[2].symbol} = {sp.long.symbol, sp.short.symbol}
          /\ previous_pl[sp.spread_id] = calculate_spread_pl(sp, latest_quotes)

\* C27: in close_mleg_spread with both quotes available, a floor above 0
\* keeps the call from the rejection for a non-positive credit: an order is
\* requested with limit price >= min_credit, also when the difference of the
\* midpoints is zero or negative; the rejection is taken only with
\* min_credit <= 0.
C27_FloorPreventsRejection ==
    ClosePriced =>
        /\ Val(attempt).call.min_credit > 0 =>
              /\ Val(attempt).outcome # "invalid_net_credit"
              /\ Val(attempt).order # None
              /\ Val(Val(attempt).order).limit_price >= Val(attempt).call.min_credit
        /\ Val(attempt).outcome = "invalid_net_credit" =>
              /\ Val(attempt).call.min_credit <= 0
              /\ Val(Val(attempt).call.computed) <= 0
              /\ Val(attempt).order = None

\* An order at the floor for quotes whose midpoints differ by a negative
\* amount.
C27_Witness ==
    /\ ClosePriced
    /\ Val(attempt).call.min_credit > 0
    /\ TwiceMidDifference < 0
    /\ Val(attempt).order # None
    /\ Val(attempt).outcome = "submitted"

\* C28: the two strike decoders agree: on every token on which parse_strike
\* and parse_option_symbol both succeed they give the same strike, and on
\* every well-formed call identifier both succeed.
C28_StrikeDecodersAgree ==
    decoded # None =>
        /\ (Val(decoded).strike # None /\ Val(decoded).parsed.strike # None) =>
              Val(decoded).strike = Val(decoded).parsed.strike
        /\ (Val(origin).kind = "wellformed" /\ Val(origin).type = "C") =>
              /\ Val(decoded).strike # None
              /\ Val(decoded).parsed.strike # None

====
